---- MODULE Spec2Model ----
(***************************************************************************)
(* The activity-to-telemetry pipeline of ziit-ls: HeartbeatManager         *)
(* (ziit-ls/src/heartbeat.rs), driven by editor events, the three          *)
(* background loops and shutdown (ziit-ls/src/main.rs), reading the        *)
(* configuration store (ziit-ls/src/config.rs) and calling the transport   *)
(* (ziit-ls/src/api.rs).                                                   *)
(*                                                                         *)
(* Every task is an async function.  An action is one run of a task from   *)
(* one suspension point (.await on a lock, on the configuration store or   *)
(* on the transport) to the next.  tokio::sync::Mutex is not reentrant: a  *)
(* lock().await completes only when no guard of that mutex is alive, also  *)
(* when the living guard belongs to the waiting task itself.               *)
(***************************************************************************)
EXTENDS Integers, Sequences, FiniteSets, TLC

\* ------------------------------------------------------------------ bounds
MaxHeartbeats == 2      \* heartbeats constructed in one run (ids of the queue file included)
MaxInitQueue == 2       \* length of the queue file found at start
MaxTime == 120          \* the clock stops here
MaxInitialize == 3      \* initialize requests in one run

\* ------------------------------------------------------- program constants
HEARTBEAT_INTERVAL_SECONDS == 120
HEARTBEAT_DEBOUNCE_SECONDS == 120

\* ---------------------------------------------------------------- domains
None == "none"
NoTask == "nobody"
NoErr == "no_error"
Files == {"/a.rs", "/b.rs"}
DEFAULT_BASE_URL == "https://ziit.app"

\* The URIs of the documents the editor reports, and one that names a file
\* of another host.
Uris == {"file:///a.rs", "file:///b.rs"}
RemoteUri == "file://host/c.rs"

\* The handlers of editor notifications run concurrently.
EditorTasks == {"ed1", "ed2"}
BgTasks == {"idle", "sync", "summary"}          \* start_background_tasks
Tasks == EditorTasks \cup BgTasks \cup {"shutdown"}

Locks == {"last_heartbeat_time", "last_file", "offline_heartbeats", "last_heartbeat_info"}

\* The transport's errors, as the text of anyhow's message.
AuthErrors == {"HTTP 401 Unauthorized", "Invalid API key"}
OtherErrors == {"HTTP 500"}
Errors == AuthErrors \cup OtherErrors

\* What the remote service does with a request at the moment it answers.
ServiceStates == {"up", "unauthorized", "down"}

\* The configuration store: config.json is unreadable or malformed, or holds
\* apiKey and baseUrl, each possibly absent.
\* text tells a file that someone wrote ("other") from one that holds
\* exactly what write_config_file writes for its values ("pretty") and from
\* no file at all ("absent").
Configs ==
    { [readable |-> FALSE, apiKey |-> None, baseUrl |-> None, text |-> "other"],
      [readable |-> TRUE, apiKey |-> None, baseUrl |-> None, text |-> "other"],
      [readable |-> TRUE, apiKey |-> "key", baseUrl |-> None, text |-> "other"],
      [readable |-> TRUE, apiKey |-> "key", baseUrl |-> "", text |-> "other"] }

\* ------------------------------------------------------------------ state
VARIABLES
    now,                  \* the wall clock, in seconds
    pc,                   \* each task's suspension point
    loc,                  \* each task's local variables
    lock,                 \* each mutex's living guard: the task that holds it
    last_heartbeat_time,  \* HeartbeatManager.last_heartbeat_time
    last_file,            \* HeartbeatManager.last_file
    offline_heartbeats,   \* HeartbeatManager.offline_heartbeats
    is_online,            \* HeartbeatManager.is_online
    has_valid_api_key,    \* HeartbeatManager.has_valid_api_key
    disk,                 \* the file offline_heartbeats.json
    config,               \* the file config.json
    service,              \* the remote service
    delivered,            \* the heartbeats the service accepted, in order
    created,              \* number of heartbeats constructed so far
    last_heartbeat_info,  \* ZiitLanguageServer.last_heartbeat_info
    history,              \* what the claims remember of the events decided so far
    idle_timer,           \* the instant of the next tick of the idle loop's interval
    call,                 \* the last call of a function without state: its argument and result
    initialized           \* what the initialize requests so far have set up

vars == << now, pc, loc, lock, last_heartbeat_time, last_file, offline_heartbeats,
           is_online, has_valid_api_key, disk, config, service, delivered, created,
           last_heartbeat_info, history, idle_timer, call, initialized >>

\* --------------------------------------------------------------- Heartbeat
\* Heartbeat::new: the timestamp is the creation order; project and branch
\* are always None, editor and os are fixed.
Heartbeat(id, file) == [id |-> id, file |-> file]
NoHb == Heartbeat(0, None)

\* Option<DateTime<Utc>>
NoTime == [some |-> FALSE, at |-> 0]
SomeTime(t) == [some |-> TRUE, at |-> t]

\* Option<LastHeartbeatInfo>
NoInfo == [some |-> FALSE, uri |-> None, timestamp |-> 0, is_write |-> FALSE]
LastHeartbeatInfo(u, t, w) == [some |-> TRUE, uri |-> u, timestamp |-> t, is_write |-> w]

\* changed remembers, for the claims, that the task's event was on another
\* URI than the last accepted one (or the first ever).
\* ZiitConfig::default()
NoConfig == [apiKey |-> None, baseUrl |-> None]

NoLoc ==
    [ uri |-> None, file |-> None, force |-> FALSE, tnow |-> 0, hb |-> NoHb,
      site |-> None, err |-> NoErr, batch |-> << >>, online |-> FALSE,
      changed |-> FALSE, cmd |-> None, arg |-> None, cfg |-> NoConfig ]

\* The history the claims keep of the decisions of handle_activity:
\*   run       the current sequence of non-write events on one URI within
\*             one window: its URI, the time of its first event, how many
\*             of its events were accepted, and whether it has one event
\*             or more;
\*   scenario  how far the decisions so far are the events of Scenario, in
\*             this order and nothing else, and how many were accepted;
\*   found     what HeartbeatManager::new found as the queue file, where the
\*             construction is part of the behaviour;
\*   saved     the queue that the last completed write of the queue file
\*             wrote (by this run or an earlier one);
\*   wrote     the command whose write of config.json was the last one, the
\*             handlers that have read the file since, and whether that
\*             write repeated the one before it;
\*   done      the value of the last set_api_key and of the last
\*             set_base_url that returned success.
NoRun == [uri |-> None, first |-> 0, accepted |-> 0, several |-> FALSE]
Scenario ==
    << [uri |-> "file:///a.rs", is_write |-> TRUE, at |-> 0],
       [uri |-> "file:///a.rs", is_write |-> FALSE, at |-> 5],
       [uri |-> "file:///a.rs", is_write |-> FALSE, at |-> 10] >>
OffScenario == [step |-> Len(Scenario) + 1, accepted |-> 0]
NoValue == "never"
NoWrite == [cmd |-> None, arg |-> None, readers |-> {}, repeated |-> FALSE]
NoDone == [set_api_key |-> NoValue, set_base_url |-> NoValue]
NoHistory ==
    [run |-> NoRun, scenario |-> [step |-> 0, accepted |-> 0], found |-> None,
     saved |-> << >>, wrote |-> NoWrite, done |-> NoDone]

\* ZiitLanguageServer before any initialize: heartbeat_manager_cell is
\* empty and no background loop runs.  An initialize that constructs its
\* HeartbeatManager starts the manager's loops (main.rs:238) before it tries
\* to set the cell (main.rs:243), and answers with the InitializeResult when
\* the cell was empty and with an internal error when it was not.
\*   cell      heartbeat_manager_cell holds a manager;
\*   running   the managers whose background loops were started and not aborted;
\*   requests  the initialize requests handled so far;
\*   answer    the answer to the last of them.
NotInitialized == [cell |-> FALSE, running |-> 0, requests |-> 0, answer |-> None]
AfterInitialize(i) ==
    [cell |-> TRUE, running |-> i.running + 1, requests |-> i.requests + 1,
     answer |-> IF i.cell THEN "internal_error" ELSE "InitializeResult"]

\* No function without state has been called yet.
NoCall == [fn |-> None, arg |-> << >>, result |-> << >>, about |-> << >>]

RunAfter(r, u, w, n, acc) ==
    IF w THEN NoRun
    ELSE IF r.uri = u /\ n - r.first < HEARTBEAT_DEBOUNCE_SECONDS
         THEN [r EXCEPT !.accepted = @ + (IF acc THEN 1 ELSE 0), !.several = TRUE]
         ELSE [uri |-> u, first |-> n, accepted |-> IF acc THEN 1 ELSE 0,
               several |-> FALSE]

ScenarioAfter(sc, u, w, n, acc) ==
    IF sc.step < Len(Scenario) /\ Scenario[sc.step + 1] = [uri |-> u, is_write |-> w, at |-> n]
    THEN [step |-> sc.step + 1, accepted |-> sc.accepted + (IF acc THEN 1 ELSE 0)]
    ELSE OffScenario

HistoryAfter(h, u, w, n, acc) ==
    [h EXCEPT !.run = RunAfter(h.run, u, w, n, acc),
              !.scenario = ScenarioAfter(h.scenario, u, w, n, acc)]

\* ------------------------------------------------- the queue file's content
\* serde_json::to_string_pretty of the VecDeque: a JSON array of objects, an
\* absent Option written as null.
\* JsonOfHeartbeat with the file left out.
JsonOfHeartbeat_OmitsFile(h) ==
    [ timestamp |-> h.id,
      file |-> "null",
      editor |-> "Zed" ]

JsonOfHeartbeat(h) ==
    [ timestamp |-> h.id,
      file |-> IF h.file = None THEN "null" ELSE h.file,
      editor |-> "Zed" ]

HeartbeatOfJson(j) ==
    Heartbeat(j.timestamp, IF j.file = "null" THEN None ELSE j.file)

Serialize(q) == [i \in 1..Len(q) |-> JsonOfHeartbeat(q[i])]
Deserialize(data) == [i \in 1..Len(data) |-> HeartbeatOfJson(data[i])]

AbsentFile == [state |-> "absent", data |-> << >>]
CorruptFile == [state |-> "corrupt", data |-> << >>]
QueueFile(q) == [state |-> "json", data |-> Serialize(q)]

\* The queue files the process may find at start: none, a corrupt one, or
\* the snapshot of up to MaxInitQueue heartbeats of an earlier run.
EarlierQueue(n) == [i \in 1..n |-> Heartbeat(i, "/a.rs")]
InitDisks ==
    {AbsentFile, CorruptFile} \cup {QueueFile(EarlierQueue(n)) : n \in 0..MaxInitQueue}

\* The queue an earlier run wrote into queue file d.
SavedBy(d) == IF d.state = "json" THEN EarlierQueue(Len(d.data)) ELSE << >>

\* load_offline_heartbeats: the queue after HeartbeatManager::new, and the file.
LoadedQueue(d) == IF d.state = "json" THEN Deserialize(d.data) ELSE << >>

\* DiskAfterLoad with the malformed file left in place.
DiskAfterLoad_KeepsCorrupt(d) == d

DiskAfterLoad(d) == IF d.state = "corrupt" THEN AbsentFile ELSE d

Init ==
    \E d \in InitDisks :
        /\ now = 0
        /\ pc = [t \in Tasks |-> "idle"]
        /\ loc = [t \in Tasks |-> NoLoc]
        /\ lock = [l \in Locks |-> NoTask]
        /\ last_heartbeat_time = NoTime
        /\ last_file = None
        /\ offline_heartbeats = LoadedQueue(d)
        /\ is_online = TRUE
        /\ has_valid_api_key = TRUE
        /\ disk = DiskAfterLoad(d)
        /\ config \in Configs
        /\ service \in ServiceStates
        /\ delivered = << >>
        /\ created = Len(LoadedQueue(d))
        /\ last_heartbeat_info = NoInfo
        /\ history = [NoHistory EXCEPT !.saved = SavedBy(d)]
        /\ idle_timer = 0
        /\ call = NoCall
        /\ initialized = AfterInitialize(NotInitialized)

\* ------------------------------------------------------- HeartbeatManager::new
\* Before initialize has constructed the manager: no task runs, and the
\* queue file is whatever an earlier run or anything else left, one that
\* cannot be read as text included.
UnreadableFile == [state |-> "unreadable", data |-> << >>]
StartDisks == InitDisks \cup {UnreadableFile}

StartInit ==
    /\ now = 0
    /\ pc = [t \in Tasks |-> "unborn"]
    /\ loc = [t \in Tasks |-> NoLoc]
    /\ lock = [l \in Locks |-> NoTask]
    /\ last_heartbeat_time = NoTime
    /\ last_file = None
    /\ offline_heartbeats = << >>
    /\ is_online = TRUE
    /\ has_valid_api_key = TRUE
    /\ disk \in StartDisks
    /\ config \in Configs
    /\ service \in ServiceStates
    /\ delivered = << >>
    /\ created = 0
    /\ last_heartbeat_info = NoInfo
    /\ history = [NoHistory EXCEPT !.saved = SavedBy(disk)]
    /\ idle_timer = 0
    /\ call = NoCall
    /\ initialized = NotInitialized

\* HeartbeatManager::new: the fields' first values, then
\* load_offline_heartbeats (a file that parses becomes the queue, one that
\* does not parse is removed, one that cannot be read is left), Ok(manager);
\* initialize then starts the background loops, which wait at their timers.
HeartbeatManager_new ==
    /\ \A t \in Tasks : pc[t] = "unborn"
    /\ offline_heartbeats' = LoadedQueue(disk)
    /\ disk' = DiskAfterLoad(disk)
    /\ created' = Len(LoadedQueue(disk))
    /\ pc' = [t \in Tasks |-> "idle"]
    /\ history' = [history EXCEPT !.found = disk.state]
    /\ initialized' = AfterInitialize(initialized)
    /\ UNCHANGED << now, loc, lock, last_heartbeat_time, last_file, is_online,
                    has_valid_api_key, config, service, delivered, last_heartbeat_info,
                    idle_timer, call >>

\* ------------------------------------------------------------ environment
\* Time passes (Utc::now() and Local::now() grow), to one of the instants
\* at which the model looks at the program: shortly after the start, and
\* when the first window ends.
Instants == {0, 5, 10, MaxTime}

AdvanceTime ==
    /\ \E n \in Instants : n > now /\ now' = n
    /\ UNCHANGED << pc, loc, lock, last_heartbeat_time, last_file, offline_heartbeats,
                    is_online, has_valid_api_key, disk, config, service, delivered,
                    created,
                    last_heartbeat_info, history, idle_timer, call, initialized >>

\* The user (or a ziit.setApiKey / ziit.setBaseUrl command) rewrites config.json.
ChangeConfig(c) ==
    /\ c # config
    /\ config' = c
    /\ UNCHANGED << now, pc, loc, lock, last_heartbeat_time, last_file,
                    offline_heartbeats, is_online, has_valid_api_key, disk, service,
                    delivered, created,
                    last_heartbeat_info, history, idle_timer, call, initialized >>

\* The network or the remote service changes its condition.
ChangeService(s) ==
    /\ s # service
    /\ service' = s
    /\ UNCHANGED << now, pc, loc, lock, last_heartbeat_time, last_file,
                    offline_heartbeats, is_online, has_valid_api_key, disk, config,
                    delivered, created,
                    last_heartbeat_info, history, idle_timer, call, initialized >>

\* ------------------------------------------------------------------ helpers
\* A task returns from its outermost call: its guards and locals are dropped.
Released(t) == [l \in Locks |-> IF lock[l] = t THEN NoTask ELSE lock[l]]

\* The error test of process_heartbeat, sync_offline_heartbeats and
\* fetch_daily_summary: the message contains "401" or, in lower case,
\* "invalid api key".
IsAuthError(e) == e \in AuthErrors

\* get_base_url's default
BaseUrlOf(c) == IF c.baseUrl = None THEN DEFAULT_BASE_URL ELSE c.baseUrl

ConfigUnset(key, url) == key = None \/ url = ""

\* ------------------------------------------------- returns and continuations
\* The task's outermost call returns (from a loop body: to the timer).
TaskReturn(t) ==
    /\ pc' = [pc EXCEPT ![t] = "idle"]
    /\ loc' = [loc EXCEPT ![t] = NoLoc]
    /\ lock' = Released(t)

\* The task goes on to suspension point p with locals l; "return" leaves the
\* outermost call, "ph_return" leaves process_heartbeat.
Continue(t, p, l) ==
    IF p = "return"
    THEN TaskReturn(t)
    ELSE /\ pc' = [pc EXCEPT ![t] = IF p = "ph_return" THEN "hea_finish" ELSE p]
         /\ loc' = [loc EXCEPT ![t] = l]
         /\ lock' = lock

\* ---------------------------------------------------------- handle_activity
\* did_change and did_save (their bookkeeping of opened_files and
\* focused_file only feeds the log) call handle_activity(uri, None, is_write),
\* which begins with `let now = Local::now()`.
HandlerBegins(t, u, w) ==
    /\ t \in EditorTasks
    /\ pc[t] = "idle"
    /\ created < MaxHeartbeats
    /\ pc' = [pc EXCEPT ![t] = "ha_lock"]
    /\ loc' = [loc EXCEPT ![t] = [NoLoc EXCEPT !.uri = u, !.force = w, !.tnow = now]]
    /\ UNCHANGED << now, lock, last_heartbeat_time, last_file, offline_heartbeats,
                    is_online, has_valid_api_key, disk, config, service, delivered,
                    created, last_heartbeat_info, history, idle_timer, call, initialized >>

did_change(t, u) == HandlerBegins(t, u, FALSE)
did_save(t, u) == HandlerBegins(t, u, TRUE)

\* Debounced with the window's end included.
Debounced_InclusiveWindow(info, u, w, n) ==
    /\ ~w
    /\ info.some
    /\ info.uri = u
    /\ ~info.is_write
    /\ n - info.timestamp <= HEARTBEAT_DEBOUNCE_SECONDS

\* Debounced without the test of the window.
Debounced_NoWindow(info, u, w, n) ==
    /\ ~w
    /\ info.some
    /\ info.uri = u
    /\ ~info.is_write
    /\ n - info.timestamp >= HEARTBEAT_DEBOUNCE_SECONDS

\* Debounced without the test of the previous event's write flag.
Debounced_IgnoresPreviousWrite(info, u, w, n) ==
    /\ ~w
    /\ info.some
    /\ info.uri = u
    /\ n - info.timestamp < HEARTBEAT_DEBOUNCE_SECONDS

\* The test of handle_activity: a non-write event on the URI of the last
\* accepted event, itself no write, less than the window after it.
Debounced(info, u, w, n) ==
    /\ ~w
    /\ info.some
    /\ info.uri = u
    /\ ~info.is_write
    /\ n - info.timestamp < HEARTBEAT_DEBOUNCE_SECONDS

\* The path handed to the manager: of a file URI, Url::to_file_path (an Err
\* for a URI with a host, so no path); of another URI, the text itself.
PathOfUri(u) ==
    CASE u = "file:///a.rs" -> "/a.rs"
      [] u = "file:///b.rs" -> "/b.rs"
      [] u = RemoteUri -> None
      [] OTHER -> u

\* The lock of last_heartbeat_info excluding nobody.
InfoLockFree_NoExclusion == TRUE

\* self.last_heartbeat_info.lock().await
InfoLockFree == lock["last_heartbeat_info"] = NoTask

\* The lock is taken and the test made; a debounced event goes on to
\* log_message with the guard alive, another one to the update.
LockInfo(t) ==
    /\ pc[t] = "ha_lock"
    /\ InfoLockFree
    /\ lock' = [lock EXCEPT !["last_heartbeat_info"] = t]
    /\ LET l == loc[t]
           sup == Debounced(last_heartbeat_info, l.uri, l.force, l.tnow)
       IN /\ pc' = [pc EXCEPT ![t] = IF sup THEN "ha_debounced" ELSE "ha_update"]
          /\ history' = HistoryAfter(history, l.uri, l.force, l.tnow, ~sup)
          /\ loc' = [loc EXCEPT ![t].changed = ~last_heartbeat_info.some
                                                \/ last_heartbeat_info.uri # l.uri]
    /\ UNCHANGED << now, last_heartbeat_time, last_file, offline_heartbeats, is_online,
                    has_valid_api_key, disk, config, service, delivered, created,
                    last_heartbeat_info, idle_timer, call, initialized >>

\* The debounced event: log_message returns, handle_activity returns.
ReturnDebounced(t) ==
    /\ pc[t] = "ha_debounced"
    /\ TaskReturn(t)
    /\ UNCHANGED << now, last_heartbeat_time, last_file, offline_heartbeats, is_online,
                    has_valid_api_key, disk, config, service, delivered, created,
                    last_heartbeat_info, history, idle_timer, call, initialized >>

\* The accepted event: *last_hb_info_guard = Some(..), drop(guard), then the
\* call of hm.handle_editor_activity(file_path, language_id, is_write), or
\* the return without it when the URI yields no path.
UpdateInfo(t) ==
    /\ pc[t] = "ha_update"
    /\ last_heartbeat_info' = LastHeartbeatInfo(loc[t].uri, loc[t].tnow, loc[t].force)
    /\ IF PathOfUri(loc[t].uri) = None
       THEN TaskReturn(t)
       ELSE /\ pc' = [pc EXCEPT ![t] = "hea_lock_time"]
            /\ loc' = [loc EXCEPT ![t] = [NoLoc EXCEPT !.file = PathOfUri(loc[t].uri),
                                                        !.force = loc[t].force,
                                                        !.changed = loc[t].changed]]
            /\ lock' = [lock EXCEPT !["last_heartbeat_info"] = NoTask]
    /\ UNCHANGED << now, last_heartbeat_time, last_file, offline_heartbeats, is_online,
                    has_valid_api_key, disk, config, service, delivered, created,
                    history, idle_timer, call, initialized >>

\* --------------------------------------------------- handle_editor_activity
\* An editor event handler (did_change, did_save through handle_activity)
\* calls handle_editor_activity(Some(path), language, is_write): a save
\* forces the heartbeat.
EditorEvent(t, f, force) ==
    /\ t \in EditorTasks
    /\ pc[t] = "idle"
    /\ created < MaxHeartbeats
    /\ pc' = [pc EXCEPT ![t] = "hea_lock_time"]
    /\ loc' = [loc EXCEPT ![t] = [NoLoc EXCEPT !.file = f, !.force = force]]
    /\ UNCHANGED << now, lock, last_heartbeat_time, last_file, offline_heartbeats,
                    is_online, has_valid_api_key, disk, config, service, delivered,
                    created,
                    last_heartbeat_info, history, idle_timer, call, initialized >>

\* The idle loop: timer.tick().await returns, at the start and every 120
\* seconds after it (a tick the loop was late for fires at once), then
\* handle_editor_activity(None, None, false).
IdleTick ==
    /\ pc["idle"] = "idle"
    /\ now >= idle_timer
    /\ created < MaxHeartbeats
    /\ idle_timer' = idle_timer + HEARTBEAT_INTERVAL_SECONDS
    /\ pc' = [pc EXCEPT !["idle"] = "hea_lock_time"]
    /\ loc' = [loc EXCEPT !["idle"] = NoLoc]
    /\ UNCHANGED << now, lock, last_heartbeat_time, last_file, offline_heartbeats,
                    is_online, has_valid_api_key, disk, config, service, delivered,
                    created,
                    last_heartbeat_info, history, call, initialized >>

\* self.last_heartbeat_time.lock().await
LockTime(t) ==
    /\ pc[t] = "hea_lock_time"
    /\ lock["last_heartbeat_time"] = NoTask
    /\ lock' = [lock EXCEPT !["last_heartbeat_time"] = t]
    /\ pc' = [pc EXCEPT ![t] = "hea_lock_file"]
    /\ UNCHANGED << now, loc, last_heartbeat_time, last_file, offline_heartbeats,
                    is_online, has_valid_api_key, disk, config, service, delivered,
                    created,
                    last_heartbeat_info, history, idle_timer, call, initialized >>

\* time_threshold_passed with a strict comparison.
time_threshold_passed_Strict(last, t) ==
    IF last.some THEN t - last.at > HEARTBEAT_INTERVAL_SECONDS ELSE TRUE

\* SufficientActivity without force_send.
SufficientActivity_IgnoresForce(force, old, new, last, t) ==
    (new # None /\ (old = None \/ old # new))
    \/ (IF last.some THEN t - last.at >= HEARTBEAT_INTERVAL_SECONDS ELSE TRUE)

file_changed(old, new) == new # None /\ (old = None \/ old # new)

time_threshold_passed(last, t) ==
    IF last.some THEN t - last.at >= HEARTBEAT_INTERVAL_SECONDS ELSE TRUE

SufficientActivity(force, old, new, last, t) ==
    force \/ file_changed(old, new) \/ time_threshold_passed(last, t)

\* self.last_file.lock().await, then the decision; with sufficient activity
\* the heartbeat is constructed and process_heartbeat begins, otherwise the
\* call returns and drops both guards.
LockFileAndDecide(t) ==
    /\ pc[t] = "hea_lock_file"
    /\ lock["last_file"] = NoTask
    /\ IF SufficientActivity(loc[t].force, last_file, loc[t].file, last_heartbeat_time, now)
       THEN /\ created' = created + 1
            /\ loc' = [loc EXCEPT ![t].tnow = now, ![t].force = FALSE,
                                  ![t].changed = FALSE,
                                  ![t].hb = Heartbeat(created + 1, loc[t].file)]
            /\ lock' = [lock EXCEPT !["last_file"] = t]
            /\ pc' = [pc EXCEPT ![t] = "ph_read_config"]
       ELSE /\ created' = created
            /\ loc' = [loc EXCEPT ![t] = NoLoc]
            /\ lock' = Released(t)
            /\ pc' = [pc EXCEPT ![t] = "idle"]
    /\ UNCHANGED << now, last_heartbeat_time, last_file, offline_heartbeats, is_online,
                    has_valid_api_key, disk, config, service, delivered,
                    last_heartbeat_info, history, idle_timer, call, initialized >>

\* After process_heartbeat (its error only logged): *last_hb_time = Some(now),
\* *last_f = file; the call returns and drops both guards.
FinishActivity(t) ==
    /\ pc[t] = "hea_finish"
    /\ last_heartbeat_time' = SomeTime(loc[t].tnow)
    /\ last_file' = loc[t].file
    /\ lock' = Released(t)
    /\ loc' = [loc EXCEPT ![t] = NoLoc]
    /\ pc' = [pc EXCEPT ![t] = "idle"]
    /\ UNCHANGED << now, offline_heartbeats, is_online, has_valid_api_key, disk, config,
                    service, delivered, created,
                    last_heartbeat_info, history, idle_timer, call, initialized >>
\* ----------------------------------------------------- configuration reads
\* get_api_key().await? and get_base_url().await? at the head of
\* process_heartbeat, after the checks of sync_offline_heartbeats and at the
\* head of fetch_daily_summary, then the test
\* api_key_opt.is_none() || base_url.is_empty().  Each of the two calls reads
\* config.json; what they yield together when the file changes in between is
\* what one read of the old or of the new file yields (an Err, unset, or
\* set), so the two reads are one step.  An unreadable or malformed file is
\* an Err that `?` returns to the caller.
ConfigResult(c) ==
    IF ~c.readable THEN "err"
    ELSE IF ConfigUnset(c.apiKey, BaseUrlOf(c)) THEN "unset" ELSE "set"

AfterReadConfig(p, r) ==
    CASE p = "ph_read_config" ->
            IF r = "err" THEN "ph_return" ELSE IF r = "unset" THEN "qoh_lock" ELSE "ph_check_online"
      [] p = "sync_read_config" ->
            IF r = "err" THEN "return" ELSE IF r = "unset" THEN "sync_unset_set_key" ELSE "sync_drain"
      [] p = "fds_read_config" ->
            IF r = "err" THEN "return" ELSE IF r = "unset" THEN "fds_unset_set_key" ELSE "fds_send"

ReadConfig(t) ==
    /\ pc[t] \in {"ph_read_config", "sync_read_config", "fds_read_config"}
    /\ LET r == ConfigResult(config)
       IN Continue(t, AfterReadConfig(pc[t], r),
                   [loc[t] EXCEPT !.site = IF r = "unset" THEN "unset" ELSE @,
                                  !.hb = IF r = "err" THEN NoHb ELSE @])
    /\ UNCHANGED << now, last_heartbeat_time, last_file, offline_heartbeats, is_online,
                    has_valid_api_key, disk, config, service, delivered, created,
                    last_heartbeat_info, history, idle_timer, call, initialized >>

\* ------------------------------------------------------ connectivity state
\* The call sites of set_online_status and of set_api_key_status.
OnlineSites ==
    {"ph_ok_set_online", "ph_err_set_online", "sync_ok_set_online",
     "sync_err_set_online", "fds_ok_set_online", "fds_err_set_online"}
KeySites ==
    {"ph_unset_set_key", "ph_ok_set_key", "ph_err_set_key",
     "sync_unset_set_key", "sync_ok_set_key", "sync_err_set_key",
     "fds_unset_set_key", "fds_ok_set_key", "fds_err_set_key"}

\* set_online_status(online), by call site: the value and where the caller goes on.
OnlineArgument(p) == p \in {"ph_ok_set_online", "sync_ok_set_online", "fds_ok_set_online"}

AfterSetOnline(p, e) ==
    CASE p = "ph_ok_set_online" -> "ph_ok_set_key"
      [] p = "ph_err_set_online" -> IF IsAuthError(e) THEN "ph_err_set_key" ELSE "qoh_lock"
      [] p = "sync_ok_set_online" -> "sync_ok_set_key"
      [] p = "sync_err_set_online" -> IF IsAuthError(e) THEN "sync_err_set_key" ELSE "sync_err_save"
      [] p = "fds_ok_set_online" -> "fds_ok_set_key"
      [] p = "fds_err_set_online" -> "return"

set_online_status(t) ==
    /\ pc[t] \in OnlineSites
    /\ is_online' = OnlineArgument(pc[t])
    /\ Continue(t, AfterSetOnline(pc[t], loc[t].err), loc[t])
    /\ UNCHANGED << now, last_heartbeat_time, last_file, offline_heartbeats,
                    has_valid_api_key, disk, config, service, delivered, created,
                    last_heartbeat_info, history, idle_timer, call, initialized >>

\* set_api_key_status(valid), by call site.
KeyArgument(p) == p \in {"ph_ok_set_key", "sync_ok_set_key", "fds_ok_set_key"}

AfterSetKey(p) ==
    CASE p = "ph_unset_set_key" -> "ph_return"
      [] p = "ph_ok_set_key" -> "ph_return"
      [] p = "ph_err_set_key" -> "qoh_lock"
      [] p = "sync_unset_set_key" -> "return"
      [] p = "sync_ok_set_key" -> "sync_ok_save"
      [] p = "sync_err_set_key" -> "sync_err_save"
      [] p = "fds_unset_set_key" -> "return"
      [] p = "fds_ok_set_key" -> "return"
      [] p = "fds_err_set_key" -> "return"

set_api_key_status(t) ==
    /\ pc[t] \in KeySites
    /\ has_valid_api_key' = KeyArgument(pc[t])
    /\ Continue(t, AfterSetKey(pc[t]), loc[t])
    /\ UNCHANGED << now, last_heartbeat_time, last_file, offline_heartbeats, is_online,
                    disk, config, service, delivered, created,
                    last_heartbeat_info, history, idle_timer, call, initialized >>

\* process_heartbeat: if !*self.is_online.lock().await { queue; return }
CheckOnline(t) ==
    /\ pc[t] = "ph_check_online"
    /\ IF is_online
       THEN Continue(t, "ph_send", loc[t])
       ELSE Continue(t, "qoh_lock", [loc[t] EXCEPT !.site = "offline"])
    /\ UNCHANGED << now, last_heartbeat_time, last_file, offline_heartbeats, is_online,
                    has_valid_api_key, disk, config, service, delivered, created,
                    last_heartbeat_info, history, idle_timer, call, initialized >>
\* -------------------------------------------------------------- transport
\* send_heartbeat_request, send_batch_heartbeats_request and
\* fetch_daily_summary_request, from the request in flight to its Result.
SendSites == {"ph_send", "sync_send", "fds_send"}

\* What the service accepts with a successful request.
Accepted(p, l) ==
    CASE p = "ph_send" -> << l.hb >>
      [] p = "sync_send" -> l.batch
      [] p = "fds_send" -> << >>

\* AfterSendOk with process falling through to the enqueue.
AfterSendOk_QueuesAnyway(p) ==
    CASE p = "ph_send" -> "qoh_lock"
      [] p = "sync_send" -> "sync_ok_set_online"
      [] p = "fds_send" -> "fds_ok_set_online"

AfterSendOk(p) ==
    CASE p = "ph_send" -> "ph_ok_set_online"
      [] p = "sync_send" -> "sync_ok_set_online"
      [] p = "fds_send" -> "fds_ok_set_online"

SendOk(t) ==
    /\ pc[t] \in SendSites
    /\ service = "up"
    /\ delivered' = delivered \o Accepted(pc[t], loc[t])
    /\ Continue(t, AfterSendOk(pc[t]), loc[t])
    /\ UNCHANGED << now, last_heartbeat_time, last_file, offline_heartbeats, is_online,
                    has_valid_api_key, disk, config, service, created,
                    last_heartbeat_info, history, idle_timer, call, initialized >>

ErrorsOf(s) ==
    CASE s = "up" -> {}
      [] s = "unauthorized" -> AuthErrors
      [] s = "down" -> OtherErrors

\* AfterSendErr with a failed summary fetch going on to an enqueue.
AfterSendErr_RefreshQueues(p, e) ==
    CASE p = "ph_send" -> "ph_err_set_online"
      [] p = "sync_send" -> "sync_err_lock"
      [] p = "fds_send" -> "qoh_lock"

\* Err(e): process_heartbeat and sync_offline_heartbeats first mark the
\* manager offline; fetch_daily_summary tests the message first.
AfterSendErr(p, e) ==
    CASE p = "ph_send" -> "ph_err_set_online"
      [] p = "sync_send" -> "sync_err_lock"
      [] p = "fds_send" -> IF IsAuthError(e) THEN "fds_err_set_key" ELSE "fds_err_set_online"

SendErr(t, e) ==
    /\ pc[t] \in SendSites
    /\ e \in ErrorsOf(service)
    /\ Continue(t, AfterSendErr(pc[t], e), [loc[t] EXCEPT !.err = e, !.site = "senderr"])
    /\ UNCHANGED << now, last_heartbeat_time, last_file, offline_heartbeats, is_online,
                    has_valid_api_key, disk, config, service, delivered, created,
                    last_heartbeat_info, history, idle_timer, call, initialized >>

\* ------------------------------------------------------------ offline queue
\* self.offline_heartbeats.lock().await completes, and the code up to the
\* next suspension point runs:
\*   qoh_lock       queue_offline_heartbeat: push_back, the guard stays alive
\*                  over the call of save_offline_heartbeats;
\*   sync_lock      sync_offline_heartbeats: return (dropping the guard) when
\*                  offline or the queue is empty, else keep the guard;
\*   sync_err_lock  the re-queue of a failed batch: push_front in reverse,
\*                  then drop(queue_for_readd).
QueueAfterLock_PushesFront(p, l) ==
    CASE p = "qoh_lock" -> << l.hb >> \o offline_heartbeats
      [] p = "sync_lock" -> offline_heartbeats
      [] p = "sync_err_lock" -> l.batch \o offline_heartbeats

QueueAfterLock(p, l) ==
    CASE p = "qoh_lock" -> Append(offline_heartbeats, l.hb)
      [] p = "sync_lock" -> offline_heartbeats
      [] p = "sync_err_lock" -> l.batch \o offline_heartbeats

\* AfterQueueLock without the test of is_online.
AfterQueueLock_IgnoresOffline(p, l) ==
    CASE p = "qoh_lock" -> "qoh_save"
      [] p = "sync_lock" ->
            IF offline_heartbeats = << >> THEN "return" ELSE "sync_read_config"
      [] p = "sync_err_lock" -> "sync_err_set_online"

AfterQueueLock(p, l) ==
    CASE p = "qoh_lock" -> "qoh_save"
      [] p = "sync_lock" ->
            IF ~l.online \/ offline_heartbeats = << >> THEN "return" ELSE "sync_read_config"
      [] p = "sync_err_lock" -> "sync_err_set_online"

GuardKept(p) == p \in {"qoh_lock", "sync_lock"}

AwaitQueueLock(t) ==
    /\ pc[t] \in {"qoh_lock", "sync_lock", "sync_err_lock"}
    /\ lock["offline_heartbeats"] = NoTask
    /\ offline_heartbeats' = QueueAfterLock(pc[t], loc[t])
    /\ IF AfterQueueLock(pc[t], loc[t]) = "return"
       THEN TaskReturn(t)
       ELSE /\ pc' = [pc EXCEPT ![t] = AfterQueueLock(pc[t], loc[t])]
            /\ lock' = [lock EXCEPT !["offline_heartbeats"] =
                                        IF GuardKept(pc[t]) THEN t ELSE NoTask]
            /\ loc' = [loc EXCEPT ![t].online = FALSE]
    /\ UNCHANGED << now, last_heartbeat_time, last_file, is_online, has_valid_api_key,
                    disk, config, service, delivered, created,
                    last_heartbeat_info, history, idle_timer, call, initialized >>

\* save_offline_heartbeats: lock the queue, serialize it, fs::write.  Where
\* the caller goes on with Ok and with Err: queue_offline_heartbeat ignores
\* the result and returns, dropping its guard; sync_offline_heartbeats
\* returns the Err with `?`; shutdown logs it.
AfterSave(p, site, ok) ==
    CASE p = "qoh_save" -> IF site = "unset" THEN "ph_unset_set_key" ELSE "ph_return"
      [] p = "sync_ok_save" -> IF ok THEN "fds_read_config" ELSE "return"
      [] p = "sync_err_save" -> "return"
      [] p = "sd_save" -> "sd_done"

save_offline_heartbeats(t, ok) ==
    /\ pc[t] \in {"qoh_save", "sync_ok_save", "sync_err_save", "sd_save"}
    /\ lock["offline_heartbeats"] = NoTask
    /\ disk' = IF ok THEN QueueFile(offline_heartbeats) ELSE disk
    /\ history' = IF ok THEN [history EXCEPT !.saved = offline_heartbeats] ELSE history
    /\ Continue(t, AfterSave(pc[t], loc[t].site, ok), loc[t])
    /\ UNCHANGED << now, last_heartbeat_time, last_file, offline_heartbeats, is_online,
                    has_valid_api_key, config, service, delivered, created,
                    last_heartbeat_info, idle_timer, call, initialized >>

\* ------------------------------------------------- sync_offline_heartbeats
\* The sync loop's timer fires.
SyncTick ==
    /\ pc["sync"] = "idle"
    /\ pc' = [pc EXCEPT !["sync"] = "sync_read_online"]
    /\ UNCHANGED << now, loc, lock, last_heartbeat_time, last_file, offline_heartbeats,
                    is_online, has_valid_api_key, disk, config, service, delivered,
                    created,
                    last_heartbeat_info, history, idle_timer, call, initialized >>

\* let is_online = *self.is_online.lock().await;
ReadOnline ==
    /\ pc["sync"] = "sync_read_online"
    /\ Continue("sync", "sync_lock", [loc["sync"] EXCEPT !.online = is_online])
    /\ UNCHANGED << now, last_heartbeat_time, last_file, offline_heartbeats, is_online,
                    has_valid_api_key, disk, config, service, delivered, created,
                    last_heartbeat_info, history, idle_timer, call, initialized >>

\* let batch = queue.drain(..).collect(); an empty batch returns.
Drain ==
    /\ pc["sync"] = "sync_drain"
    /\ offline_heartbeats' = << >>
    /\ Continue("sync", IF offline_heartbeats = << >> THEN "return" ELSE "sync_send",
                [loc["sync"] EXCEPT !.batch = offline_heartbeats])
    /\ UNCHANGED << now, last_heartbeat_time, last_file, is_online, has_valid_api_key,
                    disk, config, service, delivered, created,
                    last_heartbeat_info, history, idle_timer, call, initialized >>

\* ------------------------------------------------------ fetch_daily_summary
\* The summary loop's timer fires.
SummaryTick ==
    /\ pc["summary"] = "idle"
    /\ pc' = [pc EXCEPT !["summary"] = "fds_read_config"]
    /\ UNCHANGED << now, loc, lock, last_heartbeat_time, last_file, offline_heartbeats,
                    is_online, has_valid_api_key, disk, config, service, delivered,
                    created,
                    last_heartbeat_info, history, idle_timer, call, initialized >>

\* ----------------------------------------------------------------- shutdown
\* shutdown: abort every background task (a cancelled future drops its
\* locals, guards included), then save_offline_heartbeats.
Shutdown ==
    /\ pc["shutdown"] = "idle"
    /\ pc' = [t \in Tasks |->
                IF t \in BgTasks THEN "aborted"
                ELSE IF t = "shutdown" THEN "sd_save" ELSE pc[t]]
    /\ loc' = [t \in Tasks |-> IF t \in BgTasks THEN NoLoc ELSE loc[t]]
    /\ lock' = [l \in Locks |-> IF lock[l] \in BgTasks THEN NoTask ELSE lock[l]]
    /\ initialized' = [initialized EXCEPT !.running = 0]
    /\ UNCHANGED << now, last_heartbeat_time, last_file, offline_heartbeats, is_online,
                    has_valid_api_key, disk, config, service, delivered, created,
                    last_heartbeat_info, history, idle_timer, call >>

\* ------------------------------------------------------------ specification
\* The delivery pipeline: editor events on one file, the sync and summary
\* loops and shutdown, with the configuration and the service changing at
\* any moment.  The clock stands still (all events fall into one heartbeat
\* interval), so that after the first heartbeat only a save passes
\* handle_editor_activity.
DeliveryFiles == {"/a.rs"}
DeliveryTasks == {"ed1"}

\* One step of task t.
TaskStep(t) ==
    \/ LockTime(t)
    \/ LockFileAndDecide(t)
    \/ FinishActivity(t)
    \/ ReadConfig(t)
    \/ CheckOnline(t)
    \/ SendOk(t)
    \/ \E e \in Errors : SendErr(t, e)
    \/ set_online_status(t)
    \/ set_api_key_status(t)
    \/ AwaitQueueLock(t)
    \/ \E ok \in BOOLEAN : save_offline_heartbeats(t, ok)
    \/ (t = "sync" /\ ReadOnline)
    \/ (t = "sync" /\ Drain)

Next ==
    \/ \E c \in Configs : ChangeConfig(c)
    \/ \E s \in ServiceStates : ChangeService(s)
    \/ \E t \in DeliveryTasks, f \in DeliveryFiles, force \in BOOLEAN : EditorEvent(t, f, force)
    \/ SyncTick
    \/ SummaryTick
    \/ Shutdown
    \/ \E t \in Tasks : LockTime(t)
    \/ \E t \in Tasks : LockFileAndDecide(t)
    \/ \E t \in Tasks : FinishActivity(t)
    \/ \E t \in Tasks : ReadConfig(t)
    \/ \E t \in Tasks : CheckOnline(t)
    \/ \E t \in Tasks : SendOk(t)
    \/ \E t \in Tasks, e \in Errors : SendErr(t, e)
    \/ \E t \in Tasks : set_online_status(t)
    \/ \E t \in Tasks : set_api_key_status(t)
    \/ \E t \in Tasks : AwaitQueueLock(t)
    \/ \E t \in Tasks, ok \in BOOLEAN : save_offline_heartbeats(t, ok)
    \/ ReadOnline
    \/ Drain

Spec == Init /\ [][Next]_vars

\* The tokio runtime runs every task that can run, every transport call
\* returns, and the timers of the sync and summary loops keep firing.
FairSpec ==
    /\ Spec
    /\ \A t \in Tasks : WF_vars(TaskStep(t))
    /\ WF_vars(SyncTick)
    /\ WF_vars(SummaryTick)

\* The debouncer and the coarse gate: editor events on two documents,
\* handled by two concurrent handlers, and the idle loop, while time passes.
\* The configuration is as the start finds it (unreadable, unset or set)
\* and the service is up, so that process_heartbeat returns an Err, waits
\* in its enqueue or delivers; the sync and summary loops, which touch
\* neither last_heartbeat_info nor last_heartbeat_time nor last_file, stay
\* out.
DebounceInit == Init /\ disk = AbsentFile /\ service = "up" /\ config.baseUrl = None

DebounceNext ==
    \/ AdvanceTime
    \/ \E t \in EditorTasks, u \in Uris : did_change(t, u)
    \/ \E t \in EditorTasks, u \in Uris : did_save(t, u)
    \/ \E t \in EditorTasks : LockInfo(t)
    \/ \E t \in EditorTasks : ReturnDebounced(t)
    \/ \E t \in EditorTasks : UpdateInfo(t)
    \/ IdleTick
    \/ \E t \in Tasks : LockTime(t)
    \/ \E t \in Tasks : LockFileAndDecide(t)
    \/ \E t \in Tasks : FinishActivity(t)
    \/ \E t \in Tasks : ReadConfig(t)
    \/ \E t \in Tasks : CheckOnline(t)
    \/ \E t \in Tasks : SendOk(t)
    \/ \E t \in Tasks : set_online_status(t)
    \/ \E t \in Tasks : set_api_key_status(t)
    \/ \E t \in Tasks : AwaitQueueLock(t)

DebounceSpec == DebounceInit /\ [][DebounceNext]_vars

\* Recovery from a failed delivery: the configuration is set and stays so,
\* the service fails and comes back at any moment,
\* editor events on one file, the sync and summary loops, no shutdown.  No
\* call of save_offline_heartbeats completes here: each is made by a task
\* that holds the guard of the queue.
RecoveryInit == Init /\ ConfigResult(config) = "set"

RecoveryNext ==
    \/ \E s \in ServiceStates : ChangeService(s)
    \/ \E t \in DeliveryTasks, f \in DeliveryFiles, force \in BOOLEAN : EditorEvent(t, f, force)
    \/ SyncTick
    \/ SummaryTick
    \/ \E t \in Tasks : LockTime(t)
    \/ \E t \in Tasks : LockFileAndDecide(t)
    \/ \E t \in Tasks : FinishActivity(t)
    \/ \E t \in Tasks : ReadConfig(t)
    \/ \E t \in Tasks : CheckOnline(t)
    \/ \E t \in Tasks : SendOk(t)
    \/ \E t \in Tasks, e \in Errors : SendErr(t, e)
    \/ \E t \in Tasks : set_online_status(t)
    \/ \E t \in Tasks : set_api_key_status(t)
    \/ \E t \in Tasks : AwaitQueueLock(t)
    \/ ReadOnline
    \/ Drain

\* The tokio runtime runs every task that can run, every transport call
\* returns, and the timers of the sync and summary loops keep firing.
FairRecoverySpec ==
    /\ RecoveryInit
    /\ [][RecoveryNext]_vars
    /\ \A t \in Tasks : WF_vars(TaskStep(t))
    /\ WF_vars(SyncTick)
    /\ WF_vars(SummaryTick)

\* The start: the construction of the manager, then the delivery pipeline.
StartNext == HeartbeatManager_new \/ Next

StartSpec == StartInit /\ [][StartNext]_vars

\* The process ends (exit after shutdown, or killed at any moment) and the
\* editor starts it again: nothing but the files and the remote service
\* survives.
Restart ==
    /\ \A t \in Tasks : pc[t] # "unborn"
    /\ now' = 0
    /\ pc' = [t \in Tasks |-> "unborn"]
    /\ loc' = [t \in Tasks |-> NoLoc]
    /\ lock' = [l \in Locks |-> NoTask]
    /\ last_heartbeat_time' = NoTime
    /\ last_file' = None
    /\ offline_heartbeats' = << >>
    /\ is_online' = TRUE
    /\ has_valid_api_key' = TRUE
    /\ delivered' = << >>
    /\ created' = 0
    /\ last_heartbeat_info' = NoInfo
    /\ history' = [NoHistory EXCEPT !.saved = history.saved]
    /\ idle_timer' = 0
    /\ initialized' = NotInitialized
    /\ UNCHANGED << disk, config, service, call >>

\* The queue over restarts: the configuration has no API key, so every
\* heartbeat (of an editor event, of the idle loop) is enqueued; shutdown
\* writes the queue file; the process ends and starts again.
RestartInit == StartInit /\ config.apiKey = None /\ config.readable /\ service = "up"

RestartNext ==
    \/ HeartbeatManager_new
    \/ \E t \in DeliveryTasks, f \in DeliveryFiles, force \in BOOLEAN : EditorEvent(t, f, force)
    \/ IdleTick
    \/ \E t \in Tasks : LockTime(t)
    \/ \E t \in Tasks : LockFileAndDecide(t)
    \/ \E t \in Tasks : ReadConfig(t)
    \/ \E t \in Tasks : AwaitQueueLock(t)
    \/ Shutdown
    \/ \E t \in Tasks, ok \in BOOLEAN : save_offline_heartbeats(t, ok)
    \/ Restart

RestartSpec == RestartInit /\ [][RestartNext]_vars

\* ---------------------------------------------------------------- initialize
\* initialize (after the configuration from the initialization options):
\* HeartbeatManager::new() loads the queue file, start_background_tasks
\* starts the loops of the new manager, and heartbeat_manager_cell.set
\* keeps the first manager only.  The handlers use the manager of the cell,
\* so the queue of this model is the first manager's; a later manager has
\* loaded the same file into a queue of its own.
initialize ==
    /\ initialized.requests < MaxInitialize
    /\ pc["shutdown"] \in {"unborn", "idle"}
    /\ initialized' = AfterInitialize(initialized)
    /\ disk' = DiskAfterLoad(disk)
    /\ IF initialized.cell
       THEN UNCHANGED << pc, offline_heartbeats, created, history >>
       ELSE /\ offline_heartbeats' = LoadedQueue(disk)
            /\ created' = Len(LoadedQueue(disk))
            /\ pc' = [t \in Tasks |-> "idle"]
            /\ history' = [history EXCEPT !.found = disk.state]
    /\ UNCHANGED << now, loc, lock, last_heartbeat_time, last_file, is_online,
                    has_valid_api_key, config, service, delivered, last_heartbeat_info,
                    idle_timer, call >>

\* Any sequence of initialize requests, among the editor events, the idle
\* loop and shutdown of a server whose configuration has no API key.
InitializeNext ==
    \/ initialize
    \/ \E t \in DeliveryTasks, f \in DeliveryFiles, force \in BOOLEAN : EditorEvent(t, f, force)
    \/ IdleTick
    \/ \E t \in Tasks : LockTime(t)
    \/ \E t \in Tasks : LockFileAndDecide(t)
    \/ \E t \in Tasks : ReadConfig(t)
    \/ \E t \in Tasks : AwaitQueueLock(t)
    \/ Shutdown
    \/ \E t \in Tasks, ok \in BOOLEAN : save_offline_heartbeats(t, ok)

InitializeSpec == RestartInit /\ [][InitializeNext]_vars

\* ------------------------------------------------- set_api_key, set_base_url
\* execute_command "ziit.setApiKey" / "ziit.setBaseUrl" with a string
\* argument: the handler logs the command and calls commands::set_api_key
\* or commands::set_base_url, which read config.json, set one field of the
\* ZiitConfig read and write it back.  Nothing in commands.rs or config.rs
\* locks the file between the two steps, so the steps of two callers over
\* the same config.json (the servers of two editor windows, or handlers
\* that a runtime polls in parallel) interleave freely.
Commands == {"set_api_key", "set_base_url"}
ArgumentsOf(c) == IF c = "set_api_key" THEN {"key", "key2"} ELSE {"", "https://ziit.example"}
AbsentConfig == [readable |-> TRUE, apiKey |-> None, baseUrl |-> None, text |-> "absent"]

execute_command(t, c, v) ==
    /\ pc[t] = "idle"
    /\ pc' = [pc EXCEPT ![t] = "cmd_read"]
    /\ loc' = [loc EXCEPT ![t] = [NoLoc EXCEPT !.cmd = c, !.arg = v]]
    /\ UNCHANGED << now, lock, last_heartbeat_time, last_file, offline_heartbeats,
                    is_online, has_valid_api_key, disk, config, service, delivered,
                    created, last_heartbeat_info, history, idle_timer, call, initialized >>

\* serde_json::from_str::<ZiitConfig>: the two fields, whatever else the
\* file holds; no file is ZiitConfig::default().
ConfigOfFile(f) == [apiKey |-> f.apiKey, baseUrl |-> f.baseUrl]

\* config.api_key = Some(api_key) / config.base_url = Some(base_url)
WithValue_MixesFields(c, cmd, v) ==
    IF cmd = "set_api_key" THEN [apiKey |-> v, baseUrl |-> c.apiKey]
    ELSE [apiKey |-> c.baseUrl, baseUrl |-> v]

WithValue(c, cmd, v) ==
    IF cmd = "set_api_key" THEN [c EXCEPT !.apiKey = v] ELSE [c EXCEPT !.baseUrl = v]

\* read_config_file()?, then the assignment: an unreadable or malformed
\* file is an Err, which the handler answers with an internal error.
read_config_file(t) ==
    /\ pc[t] = "cmd_read"
    /\ IF config.readable
       THEN /\ pc' = [pc EXCEPT ![t] = "cmd_write"]
            /\ loc' = [loc EXCEPT ![t].cfg = WithValue(ConfigOfFile(config), loc[t].cmd,
                                                       loc[t].arg)]
            /\ lock' = lock
            /\ history' = [history EXCEPT !.wrote.readers = @ \cup {t}]
       ELSE /\ TaskReturn(t)
            /\ history' = history
    /\ UNCHANGED << now, last_heartbeat_time, last_file, offline_heartbeats, is_online,
                    has_valid_api_key, disk, config, service, delivered, created,
                    last_heartbeat_info, idle_timer, call, initialized >>

\* serde_json::to_string_pretty(config) and fs::write, which replaces
\* whatever the file held.
FileOfConfig(c) ==
    [readable |-> TRUE, apiKey |-> c.apiKey, baseUrl |-> c.baseUrl, text |-> "pretty"]

FileAfterWrite_Appends(old, c) ==
    IF old.text = "absent" THEN FileOfConfig(c) ELSE [old EXCEPT !.readable = FALSE]

FileAfterWrite(old, c) == FileOfConfig(c)

Repeats(t) ==
    /\ t \in history.wrote.readers
    /\ history.wrote.cmd = loc[t].cmd
    /\ history.wrote.arg = loc[t].arg

\* write_config_file(&config)?, then Ok(message): the write succeeds (ok)
\* or fails and leaves the file; either way the handler answers.
write_config_file(t, ok) ==
    /\ pc[t] = "cmd_write"
    /\ config' = IF ok THEN FileAfterWrite(config, loc[t].cfg) ELSE config
    /\ history' =
          IF ok
          THEN [history EXCEPT !.wrote = [cmd |-> loc[t].cmd, arg |-> loc[t].arg,
                                          readers |-> {}, repeated |-> Repeats(t)],
                               !.done[loc[t].cmd] = loc[t].arg]
          ELSE history
    /\ TaskReturn(t)
    /\ UNCHANGED << now, last_heartbeat_time, last_file, offline_heartbeats, is_online,
                    has_valid_api_key, disk, service, delivered, created,
                    last_heartbeat_info, idle_timer, call, initialized >>

\* The commands alone, from any configuration file or none.
ConfigInit ==
    /\ now = 0
    /\ pc = [t \in Tasks |-> "idle"]
    /\ loc = [t \in Tasks |-> NoLoc]
    /\ lock = [l \in Locks |-> NoTask]
    /\ last_heartbeat_time = NoTime
    /\ last_file = None
    /\ offline_heartbeats = << >>
    /\ is_online = TRUE
    /\ has_valid_api_key = TRUE
    /\ disk = AbsentFile
    /\ config \in Configs \cup {AbsentConfig}
    /\ service = "up"
    /\ delivered = << >>
    /\ created = 0
    /\ last_heartbeat_info = NoInfo
    /\ history = NoHistory
    /\ idle_timer = 0
    /\ call = NoCall
    /\ initialized = AfterInitialize(NotInitialized)

ConfigNext ==
    \/ \E t \in EditorTasks, c \in Commands : \E v \in ArgumentsOf(c) : execute_command(t, c, v)
    \/ \E t \in EditorTasks : read_config_file(t)
    \/ \E t \in EditorTasks, ok \in BOOLEAN : write_config_file(t, ok)

ConfigSpec == ConfigInit /\ [][ConfigNext]_vars

\* ---------------------------------------------------------------- strings
\* A string is the sequence of its pieces: each separator ("/", ".", ":",
\* "@", " ") is a piece of one character, and each run of other characters
\* is one piece (a word).  Option<String> and Result<String> are records.
NoString == [some |-> FALSE, s |-> << >>]
SomeString(s) == [some |-> TRUE, s |-> s]
ErrString == [ok |-> FALSE, s |-> << >>]
OkString(s) == [ok |-> TRUE, s |-> s]

starts_with(s, prefix) == Len(prefix) <= Len(s) /\ SubSeq(s, 1, Len(prefix)) = prefix
ends_with(s, suffix) ==
    Len(suffix) <= Len(s) /\ SubSeq(s, Len(s) - Len(suffix) + 1, Len(s)) = suffix
contains(s, sub) ==
    \E i \in 1..(Len(s) - Len(sub) + 1) : SubSeq(s, i, i + Len(sub) - 1) = sub

RECURSIVE trim_end_matches(_, _)
trim_end_matches(s, c) ==
    IF s # << >> /\ s[Len(s)] = c THEN trim_end_matches(SubSeq(s, 1, Len(s) - 1), c) ELSE s

RECURSIVE trim_start_matches(_, _)
trim_start_matches(s, c) ==
    IF s # << >> /\ s[1] = c THEN trim_start_matches(Tail(s), c) ELSE s

\* str::trim: white space off both ends
trim(s) == trim_end_matches(trim_start_matches(s, " "), " ")

\* str::strip_suffix
strip_suffix_Never(s, suffix) == NoString

strip_suffix(s, suffix) ==
    IF ends_with(s, suffix) THEN SomeString(SubSeq(s, 1, Len(s) - Len(suffix))) ELSE NoString

unwrap_or(o, s) == IF o.some THEN o.s ELSE s

\* s.split(c).last(): what follows the last c, the whole string without one
split_last(s, c) ==
    LET at == {i \in 1..Len(s) : s[i] = c}
    IN IF at = {} THEN s
       ELSE SubSeq(s, (CHOOSE i \in at : \A j \in at : j <= i) + 1, Len(s))

\* str::to_lowercase, on the words that have capital letters here
LowerOfWord(w) ==
    CASE w = "RS" -> "rs"
      [] w = "Rs" -> "rs"
      [] w = "YML" -> "yml"
      [] w = "Dockerfile" -> "dockerfile"
      [] w = "Docker-Compose" -> "docker-compose"
      [] OTHER -> w

to_lowercase_KeepsCase(s) == s

to_lowercase(s) == [i \in 1..Len(s) |-> LowerOfWord(s[i])]

\* ---------------------------------------------------- get_dashboard_url
\* commands::get_dashboard_url, of the configuration read_config_file
\* yields: an unreadable or malformed file is an Err; base_url defaults to
\* "https://ziit.app"; trailing '/' are trimmed; "/dashboard" is appended.
DefaultBaseUrl == << "https", ":", "/", "/", "ziit", ".", "app" >>
DashboardPath == << "/", "dashboard" >>

get_dashboard_url_KeepsSlashes(c) ==
    IF ~c.readable THEN ErrString
    ELSE OkString(unwrap_or(c.baseUrl, DefaultBaseUrl) \o DashboardPath)

get_dashboard_url(c) ==
    IF ~c.readable THEN ErrString
    ELSE OkString(trim_end_matches(unwrap_or(c.baseUrl, DefaultBaseUrl), "/") \o DashboardPath)

\* The stored configurations get_dashboard_url is called on.
StoredBaseUrls ==
    LET hosts == { << >>, << "https", ":", "/", "/", "ziit", ".", "app" >>,
                   << "http", ":", "/", "/", "localhost", ":", "3000" >>,
                   << "https", ":", "/", "/", "dashboard", ".", "ziit", ".", "app" >>,
                   << "https", ":", "/", "/", "ziit", ".", "app", "/", "/", "dashboard" >>,
                   << "https", ":", "/", "/", "ziit", ".", "app", "/", "base" >> }
        slashes == { << >>, << "/" >>, << "/", "/" >> }
    IN { SomeString(h \o s) : h \in hosts, s \in slashes } \cup {NoString}
StoredConfigs ==
    { [readable |-> TRUE, baseUrl |-> b] : b \in StoredBaseUrls }
        \cup { [readable |-> FALSE, baseUrl |-> NoString] }

\* execute_command "ziit.openDashboard"
openDashboard(c) ==
    /\ call' = [fn |-> "get_dashboard_url", arg |-> c, result |-> get_dashboard_url(c),
                about |-> << >>]
    /\ UNCHANGED << now, pc, loc, lock, last_heartbeat_time, last_file, offline_heartbeats,
                    is_online, has_valid_api_key, disk, config, service, delivered,
                    created, last_heartbeat_info, history, idle_timer, initialized >>

\* ------------------------------------- extract_project_from_remote_url
extract_project_from_remote_url(remote) ==
    LET url == unwrap_or(strip_suffix(trim(remote), << ".", "git" >>), trim(remote))
        project == split_last(url, "/")
    IN IF contains(url, << "@" >>) /\ contains(url, << ":" >>)
       THEN SomeString(split_last(split_last(url, ":"), "/"))
       ELSE IF starts_with(url, << "http", ":", "/", "/" >>)
                 \/ starts_with(url, << "https", ":", "/", "/" >>)
            THEN SomeString(project)
            ELSE IF project # << >> THEN SomeString(project) ELSE NoString

\* The remote URLs of a repository: over HTTPS (or HTTP) with and without
\* the ".git" suffix, with and without user and port, and the SSH form
\* user@host:owner/name.git; `git remote get-url` may leave white space
\* around it.
Repositories ==
    { [host |-> h, owner |-> o, name |-> n] :
        h \in { << "github", ".", "com" >>, << "host" >> },
        o \in { << "user" >>, << "group", "/", "sub" >> },
        n \in { << "my-project" >>, << "my", ".", "project" >> } }
Paddings == { << >>, << " " >> }
HttpsForm(r, scheme, userinfo, port, suffix, pad) ==
    << scheme, ":", "/", "/" >> \o userinfo \o r.host \o port \o << "/" >> \o r.owner
        \o << "/" >> \o r.name \o suffix \o pad
SshForm(r, user, pad) ==
    << user, "@" >> \o r.host \o << ":" >> \o r.owner \o << "/" >> \o r.name
        \o << ".", "git" >> \o pad
HttpsUrls(r, suffix) ==
    { HttpsForm(r, scheme, userinfo, port, suffix, pad) :
        scheme \in {"https", "http"}, userinfo \in { << >>, << "user", "@" >> },
        port \in { << >>, << ":", "8080" >> }, pad \in Paddings }
SshUrls(r) == { SshForm(r, user, pad) : user \in {"git", "user"}, pad \in Paddings }
RemoteUrls(r) == HttpsUrls(r, << ".", "git" >>) \cup HttpsUrls(r, << >>) \cup SshUrls(r)

\* get_project_from_git: the remote URL of the repository r is url.
get_project_from_git(r, url) ==
    /\ call' = [fn |-> "extract_project_from_remote_url", arg |-> url,
                result |-> extract_project_from_remote_url(url), about |-> r]
    /\ UNCHANGED << now, pc, loc, lock, last_heartbeat_time, last_file, offline_heartbeats,
                    is_online, has_valid_api_key, disk, config, service, delivered,
                    created, last_heartbeat_info, history, idle_timer, initialized >>

\* ---------------------------------------------------------- detect_language
\* Path::file_name: the last component; trailing separators and "."
\* components do not count; none for the empty path, the root and "..".
RECURSIVE WithoutTrailing(_)
WithoutTrailing(p) ==
    IF ends_with(p, << "/" >>) THEN WithoutTrailing(SubSeq(p, 1, Len(p) - 1))
    ELSE IF ends_with(p, << "/", "." >>) THEN WithoutTrailing(SubSeq(p, 1, Len(p) - 2))
    ELSE p

file_name(p) ==
    LET name == split_last(WithoutTrailing(p), "/")
    IN IF name \in { << >>, << "." >>, << ".", "." >> } THEN NoString ELSE SomeString(name)

\* Path::extension: what follows the last '.' of the file name; none
\* without a file name, without a '.', and when the only '.' begins the name.
extension(p) ==
    LET name == file_name(p)
        dots == {i \in 1..Len(name.s) : name.s[i] = "."}
        last == CHOOSE i \in dots : \A j \in dots : j <= i
    IN IF ~name.some \/ dots = {} THEN NoString
       ELSE IF last = 1 THEN NoString
       ELSE SomeString(SubSeq(name.s, last + 1, Len(name.s)))

\* The match of detect_language without the guarded "yml" arm: the language
\* of a lower-case extension, << >> for `_ => return None`.
LanguageOf(e) ==
    CASE e \in {"js"} -> << "JavaScript" >>
      [] e \in {"jsx"} -> << "JSX" >>
      [] e \in {"ts"} -> << "TypeScript" >>
      [] e \in {"tsx"} -> << "TSX" >>
      [] e \in {"html", "htm"} -> << "HTML" >>
      [] e \in {"css"} -> << "CSS" >>
      [] e \in {"scss", "sass"} -> << "SCSS" >>
      [] e \in {"less"} -> << "LESS" >>
      [] e \in {"vue"} -> << "Vue.js" >>
      [] e \in {"svelte"} -> << "Svelte" >>
      [] e \in {"astro"} -> << "Astro" >>
      [] e \in {"rs"} -> << "Rust" >>
      [] e \in {"c"} -> << "C" >>
      [] e \in {"cpp", "cc", "cxx", "c++"} -> << "C++" >>
      [] e \in {"h", "hpp", "hxx"} -> << "C++" >>
      [] e \in {"go"} -> << "Go" >>
      [] e \in {"zig"} -> << "Zig" >>
      [] e \in {"v"} -> << "V" >>
      [] e \in {"java"} -> << "Java" >>
      [] e \in {"kt", "kts"} -> << "Kotlin" >>
      [] e \in {"scala", "sc"} -> << "Scala" >>
      [] e \in {"groovy", "gvy"} -> << "Groovy" >>
      [] e \in {"clj", "cljs", "cljc"} -> << "Clojure" >>
      [] e \in {"cs"} -> << "CSharp" >>
      [] e \in {"fs", "fsx"} -> << "FSharp" >>
      [] e \in {"vb"} -> << "Visual Basic" >>
      [] e \in {"py", "pyw", "pyi"} -> << "Python" >>
      [] e \in {"rb", "rbw"} -> << "Ruby" >>
      [] e \in {"php"} -> << "PHP" >>
      [] e \in {"pl", "pm"} -> << "Perl" >>
      [] e \in {"lua"} -> << "Lua" >>
      [] e \in {"sh", "bash", "zsh"} -> << "Shell Script" >>
      [] e \in {"fish"} -> << "Fish" >>
      [] e \in {"ps1", "psm1", "psd1"} -> << "PowerShell" >>
      [] e \in {"r"} -> << "R" >>
      [] e \in {"hs", "lhs"} -> << "Haskell" >>
      [] e \in {"ml", "mli"} -> << "OCaml" >>
      [] e \in {"elm"} -> << "Elm" >>
      [] e \in {"ex", "exs"} -> << "Elixir" >>
      [] e \in {"erl", "hrl"} -> << "Erlang" >>
      [] e \in {"purs"} -> << "PureScript" >>
      [] e \in {"roc"} -> << "Roc" >>
      [] e \in {"gleam"} -> << "Gleam" >>
      [] e \in {"json"} -> << "JSON" >>
      [] e \in {"jsonc"} -> << "JSONC" >>
      [] e \in {"yaml", "yml"} -> << "YAML" >>
      [] e \in {"toml"} -> << "TOML" >>
      [] e \in {"xml"} -> << "XML" >>
      [] e \in {"csv"} -> << "CSV" >>
      [] e \in {"ini", "cfg"} -> << "ini" >>
      [] e \in {"env"} -> << "env" >>
      [] e \in {"md", "markdown"} -> << "Markdown" >>
      [] e \in {"rst"} -> << "reST" >>
      [] e \in {"tex"} -> << "LaTeX" >>
      [] e \in {"adoc", "asciidoc"} -> << "AsciiDoc" >>
      [] e \in {"org"} -> << "Org" >>
      [] e \in {"sql"} -> << "SQL" >>
      [] e \in {"graphql", "gql"} -> << "GraphQL" >>
      [] e \in {"cypher", "cyp"} -> << "Cypher" >>
      [] e \in {"swift"} -> << "Swift" >>
      [] e \in {"m"} -> << "Objective-C" >>
      [] e \in {"dart"} -> << "Dart" >>
      [] e \in {"tf", "tfvars"} -> << "Terraform" >>
      [] e \in {"hcl"} -> << "HCL" >>
      [] e \in {"dockerfile"} -> << "Dockerfile" >>
      [] e \in {"pp"} -> << "Puppet" >>
      [] e \in {"proto"} -> << "Proto" >>
      [] e \in {"wasm", "wat"} -> << "WebAssembly Text Format" >>
      [] e \in {"wgsl"} -> << "Wgsl" >>
      [] e \in {"glsl", "vert", "frag"} -> << "GLSL" >>
      [] e \in {"hlsl"} -> << "HLSL" >>
      [] e \in {"sol"} -> << "Solidity" >>
      [] e \in {"cairo"} -> << "Cairo" >>
      [] e \in {"move"} -> << "Move" >>
      [] e \in {"noir"} -> << "Noir" >>
      [] e \in {"fe"} -> << "Fe" >>
      [] e \in {"aiken"} -> << "Aiken" >>
      [] e \in {"el"} -> << "Elisp" >>
      [] e \in {"lisp", "lsp"} -> << "Lisp" >>
      [] e \in {"scm", "ss"} -> << "Scheme" >>
      [] e \in {"rkt"} -> << "Racket" >>
      [] e \in {"jl"} -> << "Julia" >>
      [] e \in {"d"} -> << "D" >>
      [] e \in {"nim"} -> << "Nim" >>
      [] e \in {"cr"} -> << "Crystal" >>
      [] e \in {"pony"} -> << "Pony" >>
      [] e \in {"ada", "adb", "ads"} -> << "Ada" >>
      [] e \in {"pas"} -> << "Pascal" >>
      [] e \in {"f90", "f95", "f03", "f", "for"} -> << "Fortran" >>
      [] e \in {"cob", "cbl"} -> << "COBOL" >>
      [] e \in {"asm", "s"} -> << "Assembly" >>
      [] e \in {"bf"} -> << "Brainfuck" >>
      [] e \in {"pkl"} -> << "Pkl" >>
      [] e \in {"prisma"} -> << "Prisma" >>
      [] e \in {"gd"} -> << "GDScript" >>
      [] e \in {"gdshader"} -> << "Godot Shader" >>
      [] e \in {"wren"} -> << "Wren" >>
      [] e \in {"awk"} -> << "AWK" >>
      [] e \in {"sed"} -> << "sed" >>
      [] e \in {"jq"} -> << "jq" >>
      [] e \in {"just"} -> << "Just" >>
      [] e \in {"make"} -> << "Make" >>
      [] e \in {"cmake"} -> << "CMake" >>
      [] e \in {"ninja"} -> << "Ninja" >>
      [] e \in {"bazel", "bzl"} -> << "Starlark" >>
      [] e \in {"nix"} -> << "Nix" >>
      [] e \in {"dhall"} -> << "Dhall" >>
      [] e \in {"jsonnet"} -> << "Jsonnet" >>
      [] e \in {"cue"} -> << "CUE" >>
      [] e \in {"kdl"} -> << "Kdl" >>
      [] e \in {"ron"} -> << "RON" >>
      [] OTHER -> << >>
\* n.starts_with("docker-compose"), of a file name
DockerComposeWords == {"docker-compose", "docker-compose-dev"}
IsDockerCompose(name) == name.some /\ name.s # << >> /\ name.s[1] \in DockerComposeWords

detect_language(file_path) ==
    IF ~file_path.some THEN NoString
    ELSE LET ext == extension(file_path.s)
             lower == to_lowercase(ext.s)
         IN IF ~ext.some \/ Len(lower) # 1 THEN NoString
            ELSE IF lower[1] = "yml" /\ IsDockerCompose(file_name(file_path.s))
                 THEN SomeString(<< "Docker Compose" >>)
                 ELSE IF LanguageOf(lower[1]) = << >> THEN NoString
                      ELSE SomeString(LanguageOf(lower[1]))

\* The paths detect_language is called on: a directory part, a file name
\* (a stem and an extension, either of which may be missing) and possibly a
\* trailing separator.
Directories ==
    { << >>, << "/", "path", "/", "to", "/" >>, << "dir", ".", "rs", "/" >>,
      << "docker-compose", "/" >>, << ".", "/" >> }
Stems ==
    { << "main" >>, << "docker-compose" >>, << "docker-compose-dev" >>,
      << "Docker-Compose" >>, << "archive", ".", "tar" >>, << >> }
Extensions ==
    { << >>, << "." >>, << ".", "rs" >>, << ".", "RS" >>, << ".", "Rs" >>, << ".", "yml" >>,
      << ".", "YML" >>, << ".", "yaml" >>, << ".", "go" >>, << ".", "xyz" >>,
      << ".", "Dockerfile" >> }
PathOf(a) == a.dir \o a.stem \o a.ext \o a.trail
PathParts ==
    { a \in [dir : Directories, stem : Stems, ext : Extensions, trail : { << >>, << "/" >> }] :
        a.stem \o a.ext \notin { << >>, << "." >> } }

\* A caller of detect_language (the tests of language.rs are the only ones),
\* with a path and without one.
test_detect_language(file_path, a) ==
    /\ call' = [fn |-> "detect_language", arg |-> file_path,
                result |-> detect_language(file_path), about |-> a]
    /\ UNCHANGED << now, pc, loc, lock, last_heartbeat_time, last_file, offline_heartbeats,
                    is_online, has_valid_api_key, disk, config, service, delivered,
                    created, last_heartbeat_info, history, idle_timer, initialized >>

\* The functions without state, each called on any of its inputs.
FunctionInit == Init /\ disk = AbsentFile /\ config.apiKey = None /\ config.readable
                     /\ service = "up"

FunctionNext ==
    \/ \E c \in StoredConfigs : openDashboard(c)
    \/ \E r \in Repositories : \E url \in RemoteUrls(r) : get_project_from_git(r, url)
    \/ \E a \in PathParts \cup { << >> } :
           test_detect_language(IF a = << >> THEN NoString ELSE SomeString(PathOf(a)), a)

FunctionSpec == FunctionInit /\ [][FunctionNext]_vars

\* ------------------------------------------------------ notions of the claims
Ids(q) == {q[i].id : i \in 1..Len(q)}
Count(q, id) == Cardinality({i \in 1..Len(q) : q[i].id = id})

\* No call of handle_editor_activity (process), sync or refresh is in progress.
Quiescent == \A t \in EditorTasks \cup BgTasks : pc[t] = "idle"
NoShutdown == pc["shutdown"] = "idle"

\* Task t waits for the queue's mutex while its own guard of it is alive:
\* nothing but the abort of t ends this wait.
SelfBlocked(t) ==
    /\ pc[t] \in {"qoh_lock", "sync_lock", "sync_err_lock",
                  "qoh_save", "sync_ok_save", "sync_err_save", "sd_save"}
    /\ lock["offline_heartbeats"] = t

ConfigSet == ConfigResult(config) = "set"

\* ------------------------------------------------------------------ claims
\* C1: no heartbeat is lost or duplicated: whenever no process, sync or
\* refresh call is in progress, every heartbeat constructed so far was
\* accepted by the service in exactly one successful send or is in the
\* offline queue exactly once.
C1_NoHeartbeatLostOrDuplicated ==
    (Quiescent /\ NoShutdown) =>
        \A id \in 1..created : Count(delivered, id) + Count(offline_heartbeats, id) = 1

\* C2: eventual delivery: without a shutdown, if from some point on the
\* configuration is set and every transport call succeeds, then every
\* heartbeat of the offline queue is eventually delivered and the queue is
\* eventually empty for good.
C2_EventualDelivery ==
    (<>[](ConfigSet /\ service = "up") /\ []NoShutdown) =>
        /\ \A id \in 1..MaxHeartbeats :
              (id \in Ids(offline_heartbeats)) ~> (id \in Ids(delivered))
        /\ <>[](offline_heartbeats = << >>)
\* C3: a sync whose batched send failed leaves the queue equal to B ++ Q, B
\* the batch it took and Q what was enqueued meanwhile: once the call has
\* come past the re-queue, or waits on its own guard (where it stays), the
\* batch is the head of the queue, in its order.
IsPrefix(b, q) == Len(b) <= Len(q) /\ \A i \in 1..Len(b) : q[i] = b[i]

SyncFailedAndSettled ==
    /\ loc["sync"].err # NoErr
    /\ \/ pc["sync"] \in {"sync_err_set_online", "sync_err_set_key", "sync_err_save"}
       \/ SelfBlocked("sync")

C3_FailedSyncRestoresQueue ==
    SyncFailedAndSettled => IsPrefix(loc["sync"].batch, offline_heartbeats)

\* C4: a sync whose batched send succeeded ends with an empty queue whose
\* snapshot on disk is the empty queue: once the call has come past its
\* save (it is in the summary refresh), or waits on its own guard (where it
\* stays), the queue is empty and the file holds the empty queue.
SyncSucceededAndSettled ==
    /\ loc["sync"].err = NoErr
    /\ \/ pc["sync"] \in {"fds_read_config", "fds_send", "fds_ok_set_online",
                          "fds_ok_set_key", "fds_err_set_online", "fds_err_set_key",
                          "fds_unset_set_key"}
       \/ (pc["sync"] = "sync_ok_save" /\ SelfBlocked("sync"))

C4_SuccessfulSyncEmptiesAndPersists ==
    SyncSucceededAndSettled =>
        (offline_heartbeats = << >> /\ disk = QueueFile(<< >>))

\* C5: sync is a no-op when the manager is offline (as sync read it), when
\* the queue is empty and when the configuration is unset: every step of
\* such a call leaves the queue, the queue file, is_online and the service
\* untouched and leads to the return without a request; only the unset
\* configuration may turn has_valid_api_key to FALSE.
SyncNoOpCase ==
    \/ pc["sync"] = "sync_lock" /\ (~loc["sync"].online \/ offline_heartbeats = << >>)
    \/ pc["sync"] = "sync_read_config" /\ ConfigResult(config) = "unset"
    \/ pc["sync"] = "sync_unset_set_key"

C5_SyncNoOp ==
    [][ (SyncNoOpCase /\ pc'["sync"] # pc["sync"] /\ pc'["sync"] # "aborted") =>
            /\ offline_heartbeats' = offline_heartbeats
            /\ disk' = disk
            /\ is_online' = is_online
            /\ delivered' = delivered
            /\ pc'["sync"] \in {"idle", "sync_unset_set_key"}
            /\ IF pc["sync"] = "sync_unset_set_key"
               THEN has_valid_api_key' = FALSE
               ELSE has_valid_api_key' = has_valid_api_key ]_vars

\* C5's case: sync, online with a non-empty queue, found the configuration unset.
C5_Witness ==
    /\ pc["sync"] = "sync_unset_set_key"
    /\ offline_heartbeats # << >>
    /\ is_online

\* C6: with the configuration unset, process appends the heartbeat to the
\* queue and sets the credential state to invalid: once the call has come
\* past the enqueue, or waits on its own guard (where it stays), the
\* heartbeat is the queue's last and has_valid_api_key is FALSE.
ProcessUnsetAndSettled(t) ==
    /\ loc[t].site = "unset"
    /\ \/ pc[t] = "hea_finish"
       \/ (pc[t] = "qoh_save" /\ SelfBlocked(t))

C6_UnsetConfigQueuesAndInvalidates ==
    \A t \in EditorTasks :
        ProcessUnsetAndSettled(t) =>
            /\ offline_heartbeats # << >>
            /\ offline_heartbeats[Len(offline_heartbeats)] = loc[t].hb
            /\ ~has_valid_api_key

\* C7: with the manager offline, process appends the heartbeat and returns:
\* the call never waits on its own guard of the queue.
C7_OfflineQueuesAndReturns ==
    \A t \in EditorTasks : ~(loc[t].site = "offline" /\ SelfBlocked(t))

\* C8: a successful single delivery sets is_online and has_valid_api_key to
\* TRUE and goes on to the return of process without an enqueue: no step of
\* it changes the queue or the queue file.
OnSuccessPath(t) == pc[t] \in {"ph_send", "ph_ok_set_online", "ph_ok_set_key"}

C8_SuccessfulSendLeavesQueue ==
    [][ \A t \in EditorTasks :
           (OnSuccessPath(t) /\ pc'[t] # pc[t] /\ (pc[t] = "ph_send" => delivered' # delivered)) =>
               /\ offline_heartbeats' = offline_heartbeats
               /\ disk' = disk
               /\ pc[t] = "ph_send" => pc'[t] = "ph_ok_set_online"
               /\ pc[t] = "ph_ok_set_online" => (is_online' /\ pc'[t] = "ph_ok_set_key")
               /\ pc[t] = "ph_ok_set_key" => (has_valid_api_key' /\ pc'[t] = "hea_finish") ]_vars

\* C8's case: process has returned after a successful send.
C8_Witness ==
    \E t \in EditorTasks :
        /\ pc[t] = "hea_finish"
        /\ loc[t].hb.id \in Ids(delivered)
        /\ loc[t].hb.id \notin Ids(offline_heartbeats)
        /\ is_online
        /\ has_valid_api_key

\* C9: an authorization failure of a delivery attempt leaves is_online as it
\* was: no step by which process or sync handles such a failure changes it.
HandlesAuthFailure(t) ==
    /\ pc[t] \in {"ph_err_set_online", "ph_err_set_key", "sync_err_lock",
                  "sync_err_set_online", "sync_err_set_key"}
    /\ IsAuthError(loc[t].err)

C9_AuthFailureKeepsOnline ==
    [][ \A t \in Tasks :
           (HandlesAuthFailure(t) /\ pc'[t] # pc[t]) => is_online' = is_online ]_vars

\* C10: after a single delivery failed with another failure than an
\* authorization failure, the heartbeat is appended to the offline queue
\* (no shutdown intervening).
HandlesOtherFailure(t, id) ==
    /\ pc[t] = "ph_err_set_online"
    /\ ~IsAuthError(loc[t].err)
    /\ loc[t].hb.id = id

C10_OtherFailureQueues ==
    []NoShutdown =>
        \A t \in EditorTasks, id \in 1..MaxHeartbeats :
            HandlesOtherFailure(t, id) ~> (id \in Ids(offline_heartbeats))

\* C11: process never drops a heartbeat: when process_heartbeat has returned
\* to handle_editor_activity, the heartbeat that call constructed was
\* accepted by the service, is in the offline queue, or is in the batch a
\* sync took from the queue.
C11_ProcessNeverDrops ==
    \A t \in EditorTasks :
        pc[t] = "hea_finish" =>
            loc[t].hb.id \in Ids(delivered) \cup Ids(offline_heartbeats)
                            \cup Ids(loc["sync"].batch)

\* C12: a failure to write the queue file never fails the operation that
\* triggered it: the persist step of an enqueue and of a sync is a call that
\* comes back (with Ok or with the write's Err), so no call stands at its
\* persist step waiting on its own guard of the queue.
AtPersistStep(t) == pc[t] \in {"qoh_save", "sync_ok_save", "sync_err_save"}

C12_PersistFailureNotFatal ==
    \A t \in EditorTasks \cup {"sync"} : AtPersistStep(t) => ~SelfBlocked(t)

\* C13: memory/disk consistency: whenever every enqueue and every sync is
\* over (not begun, returned, or waiting on its own guard, where it stays),
\* the queue file holds the in-memory queue, element for element.
OperationSettled(t) == pc[t] = "idle" \/ SelfBlocked(t)

C13_MemoryDiskConsistency ==
    ((\A t \in EditorTasks \cup {"sync"} : OperationSettled(t)) /\ NoShutdown) =>
        LoadedQueue(disk) = offline_heartbeats

\* C14: the debouncer suppresses an event (no call of the manager,
\* last_heartbeat_info unchanged) exactly when a previous accepted event
\* exists for the same URI, neither it nor the current event is a write, and
\* less than 120 seconds lie between them; every other event is accepted,
\* last_heartbeat_info becomes (URI, now, write flag) and the manager is
\* called.
AllThreeHold(t) ==
    /\ last_heartbeat_info.some /\ last_heartbeat_info.uri = loc[t].uri
    /\ ~last_heartbeat_info.is_write /\ ~loc[t].force
    /\ loc[t].tnow - last_heartbeat_info.timestamp < 120

C16_AtMostOnePerWindow == history.run.accepted <= 1

\* C16's case: a sequence of several such events, one of them accepted.
C16_Witness == history.run.several /\ history.run.accepted = 1

\* C17: of the events on one resource at t = 0 (write), t = 5 (non-write)
\* and t = 10 (non-write), the first two are accepted and the third is
\* suppressed.
C17_Scenario ==
    /\ history.scenario.step = 1 => history.scenario.accepted = 1
    /\ history.scenario.step = 2 => history.scenario.accepted = 2
    /\ history.scenario.step = 3 => history.scenario.accepted = 2

\* C17's case: the three events were decided.
C17_Witness == history.scenario.step = 3

\* C18: a resource change always justifies a heartbeat: an event on another
\* resource than the last observed one, and the first event ever, is
\* accepted by the debouncer, and the call of handle_editor_activity it
\* makes constructs a heartbeat.
C18_ResourceChangeJustifies ==
    [][ \A t \in EditorTasks :
           /\ (pc[t] = "ha_lock" /\ pc'[t] # "ha_lock"
                 /\ (~last_heartbeat_info.some \/ last_heartbeat_info.uri # loc[t].uri)) =>
                  pc'[t] = "ha_update"
           /\ (pc[t] = "hea_lock_file" /\ loc[t].changed /\ pc'[t] # "hea_lock_file") =>
                  created' = created + 1 ]_vars

\* C19 as stated: the coarse gate constructs and processes a heartbeat if
\* and only if the resource differs from the last reported one, or the time
\* since the last reported heartbeat has reached 120 seconds (or none was
\* reported), or the caller forces it, the callers that force being the
\* periodic idle tick and the explicit save; when it does, last_heartbeat_time
\* and last_file become the current ones, when not, both stay.
ResourceDiffers(t) == loc[t].file # "none" /\ loc[t].file # last_file
IntervalReached == ~last_heartbeat_time.some \/ now - last_heartbeat_time.at >= 120

GateRule(t, forced) ==
    /\ (pc[t] = "hea_lock_file" /\ pc'[t] # "hea_lock_file") =>
           IF forced \/ ResourceDiffers(t) \/ IntervalReached
           THEN /\ created' = created + 1
                /\ pc'[t] = "ph_read_config"
                /\ loc'[t].hb = [id |-> created + 1, file |-> loc[t].file]
                /\ loc'[t].tnow = now
           ELSE /\ created' = created
                /\ pc'[t] = "idle"
                /\ last_heartbeat_time' = last_heartbeat_time
                /\ last_file' = last_file
    /\ (pc[t] = "hea_finish" /\ pc'[t] # "hea_finish") =>
           /\ last_heartbeat_time' = [some |-> TRUE, at |-> loc[t].tnow]
           /\ last_file' = loc[t].file
           /\ pc'[t] = "idle"

InDecision(t) == pc[t] \in {"ha_update", "ha_debounced"}

C20_AtomicCheckAndUpdate ==
    \A t \in EditorTasks :
        InDecision(t) =>
            /\ \A x \in EditorTasks \ {t} : ~InDecision(x)
            /\ (pc[t] = "ha_debounced") = AllThreeHold(t)

\* C20's case: two non-write events on one resource taken at the same
\* instant, the first accepted and with the manager, the second suppressed.
C20_Witness ==
    \E t, x \in EditorTasks :
        /\ pc[t] = "ha_debounced"
        /\ pc[x] \in {"hea_lock_time", "hea_lock_file"}
        /\ last_heartbeat_info = [some |-> TRUE, uri |-> loc[t].uri,
                                  timestamp |-> loc[t].tnow, is_write |-> FALSE]
        /\ history.run = [uri |-> loc[t].uri, first |-> loc[t].tnow, accepted |-> 1,
                          several |-> TRUE]

\* C21: no lock of the activity state (last_heartbeat_time, last_file) or of
\* the offline queue is held while a network call is in flight: a task whose
\* request (single send, batched send, summary fetch) is with the transport
\* holds no guard of these mutexes.
StateLocks == {"last_heartbeat_time", "last_file", "offline_heartbeats"}
InFlight(t) == pc[t] \in SendSites

C21_NoLockAcrossNetworkCall ==
    \A t \in Tasks : InFlight(t) => \A l \in StateLocks : lock[l] # t

\* C22: handling an editor event never waits on network I/O: the handler of
\* did_change / did_save is never the task whose request is with the
\* transport, and never waits for a mutex whose guard is held by a task
\* whose request is with the transport.
WaitsFor(t) ==
    CASE pc[t] = "ha_lock" -> {"last_heartbeat_info"}
      [] pc[t] = "hea_lock_time" -> {"last_heartbeat_time"}
      [] pc[t] = "hea_lock_file" -> {"last_file"}
      [] pc[t] \in {"qoh_lock", "qoh_save"} -> {"offline_heartbeats"}
      [] OTHER -> {}

C22_EditorPathNeverWaitsOnNetwork ==
    \A t \in EditorTasks :
        /\ ~InFlight(t)
        /\ \A l \in WaitsFor(t) : lock[l] = NoTask \/ ~InFlight(lock[l])

\* C23: per-resource ordering: the heartbeats of one resource reach the
\* service in the order of their creation, and a heartbeat is never
\* delivered while an earlier heartbeat of the same resource waits in the
\* offline queue.
C23_PerResourceOrdering ==
    /\ \A i, j \in 1..Len(delivered) :
          (i < j /\ delivered[i].file = delivered[j].file) =>
              delivered[i].id <= delivered[j].id
    /\ \A i \in 1..Len(delivered), k \in 1..Len(offline_heartbeats) :
          delivered[i].file = offline_heartbeats[k].file =>
              delivered[i].id <= offline_heartbeats[k].id

\* C24: recovery after a transient failure is automatic through the sync
\* tick: if from some point on the service is reachable, then after a single
\* delivery failed with another failure than an authorization failure (the
\* manager marked offline, the heartbeat to be queued) the heartbeat is
\* eventually delivered and is_online is TRUE again.
C24_RecoveryThroughSync ==
    <>[](service = "up") =>
        \A t \in EditorTasks, id \in 1..MaxHeartbeats :
            HandlesOtherFailure(t, id) ~> (is_online /\ id \in Ids(delivered))

\* C25: abrupt cancellation at a suspension point leaves a persisted queue
\* that is valid to resume from: whenever every task is at its timer, has a
\* request in flight or waits on its own guard (where it stays), the queue
\* file is well formed and holds, in their order, every heartbeat that was
\* enqueued and not confirmed delivered (the queue, preceded by the batch of
\* a sync whose send is in flight or has failed).
IsSubSeq(a, b) ==
    \E f \in [1..Len(a) -> 1..Len(b)] :
        /\ \A i, j \in 1..Len(a) : i < j => f[i] < f[j]
        /\ \A i \in 1..Len(a) : a[i] = b[f[i]]

CancellationPoint(t) == pc[t] = "idle" \/ InFlight(t) \/ SelfBlocked(t)

Unconfirmed ==
    (IF pc["sync"] \in {"sync_send", "sync_err_lock"} THEN loc["sync"].batch ELSE << >>)
        \o offline_heartbeats

C25_CancellationLeavesValidQueue ==
    ((\A t \in EditorTasks \cup BgTasks : CancellationPoint(t)) /\ NoShutdown) =>
        /\ disk.state # "corrupt"
        /\ IsSubSeq(Unconfirmed, LoadedQueue(disk))

\* C26: on shutdown the three scheduled tasks are cancelled together, no
\* tick runs afterwards, and the queue is persisted once, synchronously and
\* without a network call: once shutdown has begun every background task is
\* aborted, shutdown itself has no request in flight, and its persist step
\* is a call that comes back, so it never waits for the queue's mutex while
\* the guard is held by a task that waits on itself.
C26_ShutdownCancelsAndPersists ==
    pc["shutdown"] # "idle" =>
        /\ \A t \in BgTasks : pc[t] = "aborted"
        /\ ~InFlight("shutdown")
        /\ pc["shutdown"] = "sd_save" => \A t \in Tasks : ~SelfBlocked(t)

\* C27: the idle tick is a keep-alive: its call of the coarse check
\* constructs a heartbeat only when editor activity was observed and the
\* heartbeat interval has elapsed since the last reported heartbeat (or none
\* was reported yet); with no editor activity observed since the start it
\* constructs none.
C27_IdleTickKeepAlive ==
    [][ (pc["idle"] = "hea_lock_file" /\ pc'["idle"] = "ph_read_config") =>
            (last_heartbeat_info.some /\ IntervalReached) ]_vars

\* C28: refresh has no effect on the offline queue: no step of the summary
\* loop, and no step of the refresh that a successful sync makes, changes the
\* in-memory queue or the queue file, whatever the outcome (configuration
\* unreadable or unset, success, authorization failure, other failure).
InRefresh(t) ==
    pc[t] \in {"fds_read_config", "fds_send", "fds_unset_set_key", "fds_ok_set_online",
               "fds_ok_set_key", "fds_err_set_online", "fds_err_set_key"}

C28_RefreshLeavesQueue ==
    [][ (pc'["summary"] # pc["summary"] \/ (InRefresh("sync") /\ pc'["sync"] # pc["sync"])) =>
            (offline_heartbeats' = offline_heartbeats /\ disk' = disk) ]_vars

\* C28's case: a refresh has failed while heartbeats are in the queue and in
\* the queue file.
C28_Witness ==
    /\ pc["summary"] \in {"fds_err_set_online", "fds_err_set_key"}
    /\ offline_heartbeats # << >>
    /\ disk = QueueFile(offline_heartbeats)

\* C29: a failed refresh folds into the connectivity and credential state
\* exactly as a failed delivery does: whenever a refresh handles a failure,
\* the pair (is_online, has_valid_api_key) its handling leaves is the pair
\* that the handling of the same error by a failed single delivery, and by a
\* failed batch sync, would leave from the same state.
\* The handling of error e from call site p on, one call at a time.
FoldStep(x, e) ==
    IF x.p \in OnlineSites
    THEN [p |-> AfterSetOnline(x.p, e), online |-> OnlineArgument(x.p), valid |-> x.valid]
    ELSE IF x.p \in KeySites
    THEN [p |-> AfterSetKey(x.p), online |-> x.online, valid |-> KeyArgument(x.p)]
    ELSE IF x.p = "sync_err_lock"
    THEN [x EXCEPT !.p = AfterQueueLock(x.p, NoLoc)]
    ELSE x

StateAfterFailure(site, e, online, valid) ==
    LET x0 == [p |-> AfterSendErr(site, e), online |-> online, valid |-> valid]
        x3 == FoldStep(FoldStep(FoldStep(x0, e), e), e)
    IN << x3.online, x3.valid >>

HandlesRefreshFailure(t) == pc[t] \in {"fds_err_set_online", "fds_err_set_key"}

C29_RefreshFoldsLikeDelivery ==
    \A t \in Tasks :
        HandlesRefreshFailure(t) =>
            LET refresh == StateAfterFailure("fds_send", loc[t].err, is_online, has_valid_api_key)
            IN /\ refresh = StateAfterFailure("ph_send", loc[t].err, is_online, has_valid_api_key)
               /\ refresh = StateAfterFailure("sync_send", loc[t].err, is_online, has_valid_api_key)

C31_QueueSurvivesRestart ==
    [][ ((\A t \in Tasks : pc[t] = "unborn") /\ disk.state = "json" /\ pc' # pc) =>
            offline_heartbeats' = history.saved ]_vars

\* C31's case: the manager of a restarted process has loaded a queue that
\* holds a heartbeat without file, which only an earlier run of the process
\* can have written.
C31_Witness ==
    /\ history.found = "json"
    /\ pc["shutdown"] = "idle"
    /\ created = Len(offline_heartbeats)
    /\ offline_heartbeats = history.saved
    /\ \E i \in 1..Len(offline_heartbeats) : offline_heartbeats[i].file = "none"

\* ----------------------------------------------------------------------- C33
\* C33 as stated: every URL get_dashboard_url returns contains "/dashboard"
\* and does not contain "//dashboard" anywhere.
C33_NeverContainsDoubleSlashDashboard ==
    (call.fn = "get_dashboard_url" /\ call.result.ok) =>
        /\ contains(call.result.s, DashboardPath)
        /\ ~contains(call.result.s, << "/", "/", "dashboard" >>)

\* C33, amended: for every readable stored configuration get_dashboard_url
\* returns the configured base URL (the default https://ziit.app when none
\* is set) with all trailing '/' removed, followed by "/dashboard"; the
\* result ends with "/dashboard" and never ends with "//dashboard"; for an
\* unreadable configuration it returns an error.
C33_DashboardUrl ==
    call.fn = "get_dashboard_url" =>
        IF ~call.arg.readable THEN ~call.result.ok
        ELSE LET base == IF call.arg.baseUrl.some THEN call.arg.baseUrl.s
                         ELSE << "https", ":", "/", "/", "ziit", ".", "app" >>
                 url == call.result.s
                 stem == SubSeq(url, 1, Len(url) - 2)
             IN /\ call.result.ok
                /\ ends_with(url, << "/", "dashboard" >>)
                /\ ~ends_with(url, << "/", "/", "dashboard" >>)
                /\ starts_with(base, stem)
                /\ \A i \in (Len(stem) + 1)..Len(base) : base[i] = "/"

C33_Witness ==
    /\ call.fn = "get_dashboard_url"
    /\ call.arg.baseUrl.some
    /\ ends_with(call.arg.baseUrl.s, << "app", "/", "/" >>)
    /\ call.result = OkString(<< "https", ":", "/", "/", "ziit", ".", "app", "/", "dashboard" >>)

\* ----------------------------------------------------------------------- C34
\* C34: for every remote URL of a repository, over HTTPS with or without
\* the ".git" suffix or in the SSH form user@host:owner/name.git,
\* extract_project_from_remote_url returns the repository's name (the last
\* path segment without ".git"), so all forms of one repository agree.
C34_ProjectOfRemoteUrl ==
    call.fn = "extract_project_from_remote_url" =>
        /\ call.result = SomeString(call.about.name)
        /\ \A url \in RemoteUrls(call.about) :
               extract_project_from_remote_url(url) = call.result

C34_Witness ==
    /\ call.fn = "extract_project_from_remote_url"
    /\ starts_with(call.arg, << "git", "@" >>)
    /\ ends_with(call.arg, << ".", "git", " " >>)
    /\ call.result = SomeString(<< "my", ".", "project" >>)

\* ----------------------------------------------------------------------- C35
\* The extension of a path as its parts give it, in lower case.
LowerExtension(e) == [i \in 1..Len(e) |-> LowerOfWord(e[i])]
IsYml(e) == LowerExtension(e) = << ".", "yml" >>
DockerComposeStem(s) == s # << >> /\ s[1] \in {"docker-compose", "docker-compose-dev"}

\* C35 as stated: two paths with the same extension (up to letter case)
\* have the same language, whatever their file names.
C35_ByExtensionAlone ==
    (call.fn = "detect_language" /\ call.arg.some /\ call.about.stem # << >>
        /\ call.about.ext # << >>) =>
        \A s \in Stems \ { << >> } :
            detect_language(SomeString(s \o call.about.ext)) = call.result

\* C35, amended: detect_language maps a path to a language by its extension,
\* independent of the directory part and of the letter case of the
\* extension, except that a file with extension yml whose name starts with
\* "docker-compose" is "Docker Compose" and not "YAML"; it returns None
\* when the path is absent, has no extension or has an unknown extension.
C35_DetectLanguage ==
    call.fn = "detect_language" =>
        IF ~call.arg.some THEN call.result = NoString
        ELSE LET a == call.about
             IN /\ call.result = detect_language(SomeString(a.stem \o LowerExtension(a.ext)))
                /\ (a.stem # << >> /\ a.ext # << >>) =>
                       \A s \in Stems \ { << >> } :
                           (IsYml(a.ext) => (DockerComposeStem(s) <=> DockerComposeStem(a.stem)))
                               => detect_language(SomeString(s \o a.ext)) = call.result
                /\ (IsYml(a.ext) /\ DockerComposeStem(a.stem)) =>
                       call.result = SomeString(<< "Docker Compose" >>)
                /\ (IsYml(a.ext) /\ a.stem # << >> /\ ~DockerComposeStem(a.stem)) =>
                       call.result = SomeString(<< "YAML" >>)
                /\ (LowerExtension(a.ext) = << ".", "rs" >> /\ a.stem # << >>) =>
                       call.result = SomeString(<< "Rust" >>)
                /\ (a.ext = << >> /\ a.stem \in { << "main" >>, << "docker-compose" >> }) =>
                       call.result = NoString
                /\ (a.stem = << >> \/ a.ext \in { << "." >>, << ".", "xyz" >> }) =>
                       call.result = NoString

C35_Witness ==
    /\ call.fn = "detect_language"
    /\ call.arg = SomeString(<< "/", "path", "/", "to", "/", "docker-compose-dev", ".", "YML" >>)
    /\ call.result = SomeString(<< "Docker Compose" >>)

\* ----------------------------------------------------------------------- C32
\* C32: a configuration write that repeats the last one (the same command
\* with the same value, by a handler that read the file after that write,
\* or write_config_file of the same values) leaves config.json holding
\* exactly what it held after the first.
C32_IdempotentConfigWrite ==
    [][ \A t \in EditorTasks :
            (pc[t] = "cmd_write" /\ pc'[t] = "idle" /\ Repeats(t)) => config' = config ]_vars

C32_Witness ==
    /\ history.wrote.repeated
    /\ history.wrote.cmd = "set_base_url"
    /\ config = [readable |-> TRUE, apiKey |-> "key", baseUrl |-> "https://ziit.example",
                 text |-> "pretty"]

\* ----------------------------------------------------------------------- C40
\* C40: once set_api_key(k) and set_base_url(u) have returned success,
\* however their read and write steps interleaved, config.json holds
\* apiKey = k and baseUrl = u (k and u being the last values set).
C40_BothFieldsStored ==
    /\ history.done.set_api_key # NoValue => config.apiKey = history.done.set_api_key
    /\ history.done.set_base_url # NoValue => config.baseUrl = history.done.set_base_url

\* ----------------------------------------------------------------------- C36
\* C36: no call of process_heartbeat, queue_offline_heartbeat or
\* sync_offline_heartbeats waits on the queue's mutex while its own task
\* holds the guard of that mutex (a wait that nothing ends): the
\* enqueue-then-persist step and both branches of sync complete.
C36_NoCallWaitsOnItsOwnGuard ==
    \A t \in EditorTasks \cup {"idle", "sync"} : ~SelfBlocked(t)

C38_IdleTickKeepsLastFile ==
    [][ pc'["idle"] # pc["idle"] => last_file' = last_file ]_vars

\* ----------------------------------------------------------------------- C39
\* C39: whatever initialize requests arrive, at most one HeartbeatManager
\* has running background loops: an initialize that finds the manager
\* already set answers with an internal error and has started nothing.
C39_AtMostOneManagerRuns ==
    initialized.running <= 1

====
